---------------------------- MODULE Spec2Model ----------------------------
(***************************************************************************)
(* Transaction normalization pipeline of the personal-finance dashboard:   *)
(* the date normalizer (parseDate / formatDate), the categorizer           *)
(* (getCategory), the statement parser (processXlsData), the dedupe filter *)
(* (makeTransactionKey / filterDuplicateStaged) and the places where a     *)
(* transaction's type is derived from its amount.                          *)
(*                                                                         *)
(* Strings are sequences of one-character strings, so that trimming, case  *)
(* folding, pattern matching, number parsing and formatting are computed   *)
(* character by character as the code computes them.  Amounts are decimal  *)
(* fixed-point numbers in thousandths (Scale).                             *)
(***************************************************************************)
EXTENDS Integers, Sequences, FiniteSets, TLC

VARIABLES
    \* --- date normalizer harness
    dateSeed,      \* the (year, month, day, form) the input string was written from
    dateStr,       \* the string handed to parseDate
    host,          \* how the host's generic Date parser treats non-ISO strings
    parsed,        \* parseDate's result: [ok, t]  (ok = FALSE is null)
    formatted,     \* formatDate's result
    datePc,        \* "input" -> "parsed" -> "formatted"
    \* --- categorizer harness
    categorizationMap,  \* the keyword table: a sequence of [key, value] entries
    description,        \* the description handed to getCategory
    category,           \* getCategory's result
    catPc,              \* "input" -> "done"
    \* --- statement parser harness
    aoa,                \* the decoded sheet: rows of cells (sheet_to_json, header: 1)
    parseOutcome,       \* processXlsData's outcome: [status, transactions]
    parsePc,            \* "input" -> "done"
    \* --- ledger records and the edit form
    ledgerRow,          \* a row of the transactions table, as the backend returns it
    transaction,        \* mapRowToTransaction(ledgerRow), the record being edited
    formData,           \* EditTransactionModal's working copy
    editPc,             \* "row" -> "closed" -> "open"
    \* --- makeTransactionKey harness
    keyInputs,          \* two transactions
    keys,               \* their keys
    keyPc,              \* "input" -> "done"
    \* --- filterDuplicateStaged harness
    staged,             \* the staged candidates
    existingKeys,       \* keys of the transactions already in the ledger
    newOnes,            \* result: the candidates to insert
    duplicateCount,     \* result: how many candidates were dropped
    dedupePc,           \* "input" -> "done"
    \* --- ingestion: the transactions table and the sessions working on it
    transactionsTable,  \* the backend's transactions table: a sequence of rows
    analysisResult,     \* per session: analysisResult.transactions, the loaded ledger
    stagedTransactions, \* per session: the candidates awaiting confirmation
    inFlight,           \* per session: the insert request handed to the backend
    errorMessage,       \* per session: the message the last confirmation left
    sessionPc,          \* per session: "ready" -> "inserting" -> "refetching" -> "ready"
    ingested,           \* per session: the batches confirmed and then refreshed
    statements,         \* per session: the parsed statements the user can upload
    isConfirming,       \* per session: a confirmation is being processed
    isStagingModalOpen, \* per session: the staging modal is shown
    \* --- analytics harness
    ledger,             \* the transactions handed to the analytics functions
    thresholds,         \* detectAnomalies' zThresholdModerate and zThresholdSevere
    report,             \* the functions' results, by function name
    analyticsPc         \* "input" -> ... -> "done"

dateVars == <<dateSeed, dateStr, host, parsed, formatted, datePc>>
catVars == <<categorizationMap, description, category, catPc>>
parseVars == <<aoa, parseOutcome, parsePc>>
recordVars == <<ledgerRow, transaction, formData, editPc>>
keyVars == <<keyInputs, keys, keyPc>>
dedupeVars == <<staged, existingKeys, newOnes, duplicateCount, dedupePc>>
ingestVars ==
    <<transactionsTable, analysisResult, stagedTransactions, inFlight, errorMessage,
      sessionPc, ingested, statements, isConfirming, isStagingModalOpen>>
analyticsVars == <<ledger, thresholds, report, analyticsPc>>
vars ==
    <<dateVars, catVars, parseVars, recordVars, keyVars, dedupeVars, ingestVars,
      analyticsVars>>

-----------------------------------------------------------------------------
(* Characters and strings                                                  *)

DigitChars == <<"0", "1", "2", "3", "4", "5", "6", "7", "8", "9">>
UpperChars == <<"A", "B", "C", "D", "E", "F", "G", "H", "I", "J", "K", "L", "M",
                "N", "O", "P", "Q", "R", "S", "T", "U", "V", "W", "X", "Y", "Z">>
LowerChars == <<"a", "b", "c", "d", "e", "f", "g", "h", "i", "j", "k", "l", "m",
                "n", "o", "p", "q", "r", "s", "t", "u", "v", "w", "x", "y", "z">>

Range(f) == {f[i] : i \in DOMAIN f}

IndexIn(c, table) == CHOOSE i \in DOMAIN table : table[i] = c

DigitValues == [c \in Range(DigitChars) |-> IndexIn(c, DigitChars) - 1]
LowerOf == [c \in Range(UpperChars) |-> LowerChars[IndexIn(c, UpperChars)]]
UpperOf == [c \in Range(LowerChars) |-> UpperChars[IndexIn(c, LowerChars)]]

IsDigit(c) == c \in DOMAIN DigitValues
IsUpper(c) == c \in DOMAIN LowerOf
IsLower(c) == c \in DOMAIN UpperOf
IsLetter(c) == IsUpper(c) \/ IsLower(c)
IsSpace(c) == c \in {" ", "\t"}

ToLowerChar(c) == IF IsUpper(c) THEN LowerOf[c] ELSE c
ToUpperChar(c) == IF IsLower(c) THEN UpperOf[c] ELSE c

\* String.prototype.toLowerCase / toUpperCase
ToLowerCase(s) == [i \in DOMAIN s |-> ToLowerChar(s[i])]
ToUpperCase(s) == [i \in DOMAIN s |-> ToUpperChar(s[i])]

RECURSIVE TrimStart(_)
TrimStart(s) ==
    IF s # <<>> /\ IsSpace(Head(s)) THEN TrimStart(Tail(s)) ELSE s

RECURSIVE TrimEnd(_)
TrimEnd(s) ==
    IF s # <<>> /\ IsSpace(s[Len(s)]) THEN TrimEnd(SubSeq(s, 1, Len(s) - 1)) ELSE s

\* String.prototype.trim
Trim(s) == TrimEnd(TrimStart(s))

AllDigits(s) == \A i \in DOMAIN s : IsDigit(s[i])
AllLetters(s) == \A i \in DOMAIN s : IsLetter(s[i])

\* String.prototype.split on a one-character separator
RECURSIVE SplitFrom(_, _, _)
SplitFrom(s, sep, cur) ==
    IF s = <<>> THEN <<cur>>
    ELSE IF Head(s) = sep THEN <<cur>> \o SplitFrom(Tail(s), sep, <<>>)
    ELSE SplitFrom(Tail(s), sep, Append(cur, Head(s)))

Split(s, sep) == SplitFrom(s, sep, <<>>)

\* parseInt(digits, 10) on a string of digits
RECURSIVE ParseIntAcc(_, _)
ParseIntAcc(s, acc) ==
    IF s = <<>> THEN acc ELSE ParseIntAcc(Tail(s), 10 * acc + DigitValues[Head(s)])

ParseInt(s) == ParseIntAcc(s, 0)

\* String(n) for a non-negative integer
RECURSIVE NatToStr(_)
NatToStr(n) ==
    IF n < 10 THEN <<DigitChars[n + 1]>>
    ELSE Append(NatToStr(n \div 10), DigitChars[(n % 10) + 1])

\* String.prototype.padStart(width, '0')
RECURSIVE PadStart(_, _)
PadStart(s, width) == IF Len(s) >= width THEN s ELSE PadStart(<<"0">> \o s, width)

-----------------------------------------------------------------------------
(* The host's Date: a UTC midnight is kept as its day number since         *)
(* 1970-01-01; an invalid Date (NaN time value) and null are [ok |-> FALSE].*)

NullDate == [ok |-> FALSE, t |-> 0]
SomeDate(t) == [ok |-> TRUE, t |-> t]

\* Day number of the proleptic Gregorian day (y, m, d), m in 1..12; d may run
\* past the month's end, as Date.UTC lets it.
DaysFromCivil(y, m, d) ==
    LET yy  == IF m <= 2 THEN y - 1 ELSE y
        era == yy \div 400
        yoe == yy - era * 400
        mp  == IF m > 2 THEN m - 3 ELSE m + 9
        doy == (153 * mp + 2) \div 5 + d - 1
        doe == yoe * 365 + yoe \div 4 - yoe \div 100 + doy
    IN era * 146097 + doe - 719468

\* The calendar fields of a day number: getUTCFullYear, getUTCMonth (+1), getUTCDate.
CivilFromDays(t) ==
    LET z   == t + 719468
        era == z \div 146097
        doe == z - era * 146097
        yoe == (doe - doe \div 1460 + doe \div 36524 - doe \div 146096) \div 365
        doy == doe - (365 * yoe + yoe \div 4 - yoe \div 100)
        mp  == (5 * doy + 2) \div 153
        d   == doy - (153 * mp + 2) \div 5 + 1
        m   == IF mp < 10 THEN mp + 3 ELSE mp - 9
    IN [y |-> yoe + era * 400 + (IF m <= 2 THEN 1 ELSE 0), m |-> m, d |-> d]

\* Date.UTC(year, month, day): month is 0-based and carries into the year, day
\* carries into the month, and a year in 0..99 means 1900 + year.
DateUTC(year, month, day) ==
    LET fullYear == IF year >= 0 /\ year <= 99 THEN 1900 + year ELSE year
        ym == fullYear + (month \div 12)
        mn == month % 12
    IN DaysFromCivil(ym, mn + 1, 1) + (day - 1)

IsLeapYear(y) == (y % 4 = 0 /\ y % 100 # 0) \/ y % 400 = 0

DaysInMonth(y, m) ==
    IF m = 2 THEN (IF IsLeapYear(y) THEN 29 ELSE 28)
    ELSE IF m \in {4, 6, 9, 11} THEN 30 ELSE 31


-----------------------------------------------------------------------------
(* Values a spreadsheet cell (or parseDate's argument) can hold: a string, *)
(* a Date object (cellDates: true) given by its local calendar fields, or  *)
(* undefined (a blank cell).                                               *)

StrVal(s) == [kind |-> "str", s |-> s, y |-> 0, m |-> 0, d |-> 0]
DateVal(y, m, d) == [kind |-> "date", s |-> <<>>, y |-> y, m |-> m, d |-> d]
InvalidDateVal == [kind |-> "baddate", s |-> <<>>, y |-> 0, m |-> 0, d |-> 0]
Undefined == [kind |-> "undef", s |-> <<>>, y |-> 0, m |-> 0, d |-> 0]

-----------------------------------------------------------------------------
(* parseDate                                                               *)

\* The three-letter month table of pattern 3 (index - 1 is the 0-based month).
monthMap == << <<"j","a","n">>, <<"f","e","b">>, <<"m","a","r">>, <<"a","p","r">>,
               <<"m","a","y">>, <<"j","u","n">>, <<"j","u","l">>, <<"a","u","g">>,
               <<"s","e","p">>, <<"o","c","t">>, <<"n","o","v">>, <<"d","e","c">> >>

\* A wrong validation: any day the Date constructor accepts is taken.
RoundTripsUnchecked(year, month, day) == TRUE

\* date.getUTCFullYear() === year && date.getUTCMonth() === month && date.getUTCDate() === day
RoundTrips(year, month, day) ==
    LET c == CivilFromDays(DateUTC(year, month, day))
    IN c.y = year /\ c.m - 1 = month /\ c.d = day

\* A wrong century for short years.
ExpandYearLastCentury(year) == IF year < 100 THEN year + 1900 ELSE year

\* if (year < 100) year += 2000
ExpandYear(year) == IF year < 100 THEN year + 2000 ELSE year

\* new Date(Date.UTC(year, month, day)) when it round-trips, else no result
ValidatedDate(year, month, day) ==
    IF RoundTrips(year, month, day) THEN SomeDate(DateUTC(year, month, day)) ELSE NullDate

\* Pattern 1: /^(\d{4})-(\d{1,2})-(\d{1,2})$/
MatchesPattern1(parts) ==
    /\ Len(parts) = 3
    /\ \A i \in 1..3 : AllDigits(parts[i])
    /\ Len(parts[1]) = 4 /\ Len(parts[2]) \in 1..2 /\ Len(parts[3]) \in 1..2

Pattern1(str) ==
    LET parts == Split(str, "-")
    IN IF MatchesPattern1(parts)
       THEN ValidatedDate(ParseInt(parts[1]), ParseInt(parts[2]) - 1, ParseInt(parts[3]))
       ELSE NullDate

\* Pattern 2: /^(\d{1,2})\/(\d{1,2})\/(\d{2,4})$/
MatchesPattern2(parts) ==
    /\ Len(parts) = 3
    /\ \A i \in 1..3 : AllDigits(parts[i])
    /\ Len(parts[1]) \in 1..2 /\ Len(parts[2]) \in 1..2 /\ Len(parts[3]) \in 2..4

Pattern2(str) ==
    LET parts == Split(str, "/")
    IN IF MatchesPattern2(parts)
       THEN ValidatedDate(ExpandYear(ParseInt(parts[3])), ParseInt(parts[2]) - 1,
                          ParseInt(parts[1]))
       ELSE NullDate

\* Pattern 3: /^(\d{1,2})-([a-zA-Z]{3})-(\d{2,4})$/
MatchesPattern3(parts) ==
    /\ Len(parts) = 3
    /\ AllDigits(parts[1]) /\ Len(parts[1]) \in 1..2
    /\ AllLetters(parts[2]) /\ Len(parts[2]) = 3
    /\ AllDigits(parts[3]) /\ Len(parts[3]) \in 2..4

Pattern3(str) ==
    LET parts == Split(str, "-")
    IN IF MatchesPattern3(parts) /\ ToLowerCase(parts[2]) \in Range(monthMap)
       THEN ValidatedDate(ExpandYear(ParseInt(parts[3])),
                          IndexIn(ToLowerCase(parts[2]), monthMap) - 1,
                          ParseInt(parts[1]))
       ELSE NullDate

\* The century a host's legacy parser gives a short year.
HostYear(year) ==
    IF year < 50 THEN year + 2000 ELSE IF year < 100 THEN year + 1900 ELSE year

\* A host calendar day (m in 1..12): real days are accepted; a day past the month's
\* end (up to 31) is carried into the next month by a lenient host and rejected
\* by a strict one.
HostDay(y, m, d, lenient) ==
    IF m \in 1..12 /\ d \in 1..DaysInMonth(y, m) THEN SomeDate(DaysFromCivil(y, m, d))
    ELSE IF lenient /\ m \in 1..12 /\ d \in 1..31 THEN SomeDate(DaysFromCivil(y, m, d))
    ELSE NullDate

\* new Date(str) followed by getFullYear/getMonth/getDate: the host's generic
\* parser.  Only the ISO format is specified; the rest is the host's choice:
\* host.mdy reads numeric a/b/y as month/day/year, host.lenient carries
\* overflowing days and accepts day-month-name-year.  Anything else is an invalid Date.
HostDateParse(str, h) ==
    LET dash == Split(str, "-")
        slash == Split(str, "/")
    IN IF MatchesPattern1(dash)
       THEN HostDay(ParseInt(dash[1]), ParseInt(dash[2]), ParseInt(dash[3]), h.lenient)
       ELSE IF MatchesPattern2(slash)
       THEN (IF h.mdy
             THEN HostDay(HostYear(ParseInt(slash[3])), ParseInt(slash[1]),
                          ParseInt(slash[2]), h.lenient)
             ELSE NullDate)
       ELSE IF MatchesPattern3(dash) /\ ToLowerCase(dash[2]) \in Range(monthMap)
       THEN (IF h.lenient
             THEN HostDay(HostYear(ParseInt(dash[3])),
                          IndexIn(ToLowerCase(dash[2]), monthMap), ParseInt(dash[1]), TRUE)
             ELSE NullDate)
       ELSE NullDate

\* The fallback: re-create the host's result as a UTC date.
Fallback(str, h) ==
    LET standardDate == HostDateParse(str, h)
    IN IF standardDate.ok
       THEN LET c == CivilFromDays(standardDate.t)
            IN SomeDate(DateUTC(c.y, c.m - 1, c.d))
       ELSE NullDate

\* parseDate on a string: the patterns in their fixed order, then the fallback.
ParseDateString(raw, h) ==
    LET str == Trim(raw)
    IN IF str = <<>> THEN NullDate
       ELSE IF Pattern1(str).ok THEN Pattern1(str)
       ELSE IF Pattern2(str).ok THEN Pattern2(str)
       ELSE IF Pattern3(str).ok THEN Pattern3(str)
       ELSE Fallback(str, h)

\* parseDate: a valid Date object is re-created from its calendar fields; anything
\* that is neither a Date nor a string is null.
ParseDate(dateInput, h) ==
    IF dateInput.kind = "date"
    THEN SomeDate(DateUTC(dateInput.y, dateInput.m - 1, dateInput.d))
    ELSE IF dateInput.kind # "str" THEN NullDate
    ELSE ParseDateString(dateInput.s, h)

\* formatDate: the year as it prints, month and day padded to two digits.
FormatDate(date) ==
    LET c == CivilFromDays(date.t)
    IN NatToStr(c.y) \o <<"-">> \o PadStart(NatToStr(c.m), 2) \o <<"-">>
       \o PadStart(NatToStr(c.d), 2)

-----------------------------------------------------------------------------
(* Date inputs: every (year, month, day) of the grid below, real or not,   *)
(* written in each of the forms the statement files use, and some text     *)
(* that is no date at all.                                                 *)

DayForms == {"iso", "isoShort", "spacedIso", "dmy", "ddmmyyyy", "dmyy", "ddMonYY", "dmonyyyy"}
TextForms == {"garbage", "empty", "blank"}
Hosts == [mdy : BOOLEAN, lenient : BOOLEAN]

DateSeeds ==
    [y : {2000, 2023, 2024, 2099}, m : 1..13, d : {0, 1, 9, 12, 13, 28, 29, 30, 31},
     form : DayForms]
    \cup [y : {2025}, m : {11}, d : {8}, form : TextForms]

\* "Nov" for month 11; a month that does not exist is written "Xyz".
MonthAbbrev(m, capital) ==
    IF m \in 1..12
    THEN (IF capital THEN <<ToUpperChar(monthMap[m][1])>> ELSE <<monthMap[m][1]>>)
         \o <<monthMap[m][2], monthMap[m][3]>>
    ELSE <<"X", "y", "z">>

WriteDate(seed) ==
    LET y4 == PadStart(NatToStr(seed.y), 4)
        y2 == PadStart(NatToStr(seed.y % 100), 2)
        m1 == NatToStr(seed.m)
        m2 == PadStart(m1, 2)
        d1 == NatToStr(seed.d)
        d2 == PadStart(d1, 2)
    IN CASE seed.form = "iso"       -> y4 \o <<"-">> \o m2 \o <<"-">> \o d2
         [] seed.form = "isoShort"  -> y4 \o <<"-">> \o m1 \o <<"-">> \o d1
         [] seed.form = "dmy"       -> d1 \o <<"/">> \o m1 \o <<"/">> \o y4
         [] seed.form = "ddmmyyyy"  -> d2 \o <<"/">> \o m2 \o <<"/">> \o y4
         [] seed.form = "dmyy"      -> d1 \o <<"/">> \o m1 \o <<"/">> \o y2
         [] seed.form = "ddMonYY"   -> d2 \o <<"-">> \o MonthAbbrev(seed.m, TRUE) \o <<"-">> \o y2
         [] seed.form = "dmonyyyy"  -> d1 \o <<"-">> \o MonthAbbrev(seed.m, FALSE) \o <<"-">> \o y4
         [] seed.form = "garbage"   -> <<"i","n","v","a","l","i","d","-","d","a","t","e">>
         [] seed.form = "empty"     -> <<>>
         [] seed.form = "blank"     -> <<" ", " ">>
         [] seed.form = "spacedIso" -> <<" ">> \o y4 \o <<"-">> \o m2 \o <<"-">> \o d2 \o <<" ">>

\* const d = parseDate(dateStr)
ParseDateStep ==
    /\ datePc = "input"
    /\ parsed' = ParseDate(StrVal(dateStr), host)
    /\ datePc' = "parsed"
    /\ UNCHANGED <<dateSeed, dateStr, host, formatted, catVars, parseVars, recordVars, keyVars, dedupeVars, ingestVars, analyticsVars>>

\* if (d) formatDate(d)
FormatDateStep ==
    /\ datePc = "parsed"
    /\ parsed.ok
    /\ formatted' = FormatDate(parsed)
    /\ datePc' = "formatted"
    /\ UNCHANGED <<dateSeed, dateStr, host, parsed, catVars, parseVars, recordVars, keyVars, dedupeVars, ingestVars, analyticsVars>>

-----------------------------------------------------------------------------
(* Claims about the date normalizer                                        *)

\* The seed is a day of the calendar.
IsCalendarDay(seed) ==
    /\ seed.form \in DayForms
    /\ seed.m \in 1..12
    /\ seed.d \in 1..DaysInMonth(seed.y, seed.m)

IsoOf(seed) == WriteDate([seed EXCEPT !.form = "iso"])

\* C1: for every calendar day, parseDate of its YYYY-MM-DD form, of its D/M/YYYY
\* form and of its D-Mon-YY form (two-digit years read as 2000 + y) is not null,
\* and formatDate of each result is the day's zero-padded YYYY-MM-DD string.
C1_RoundTrip ==
    IsCalendarDay(dateSeed) =>
        /\ datePc # "input" => parsed.ok
        /\ datePc = "formatted" => formatted = IsoOf(dateSeed)

\* The leap day written 29-Feb-24 has been parsed and formatted.
C1_Witness ==
    /\ datePc = "formatted"
    /\ dateSeed.form = "ddMonYY"
    /\ dateStr = <<"2","9","-","F","e","b","-","2","4">>
    /\ formatted = <<"2","0","2","4","-","0","2","-","2","9">>

\* C2 as stated: every input that is not a real calendar day yields null.
C2_NullForEveryUnrealDay ==
    (datePc # "input" /\ ~IsCalendarDay(dateSeed)) => ~parsed.ok

\* C2 amended: for an input that is not a real calendar day, a pattern that matches
\* but fails its round-trip check does not end the parse; the string goes on to the
\* host's generic parser, and parseDate returns null exactly when that parser
\* rejects it too: always for text that is no date ("invalid-date", empty, blank)
\* and always on a host that reads nothing beyond the three patterns.  Otherwise
\* the result is the day the host read (05/13/2025 is read as May 13).
C2_NullIffHostRejects ==
    (datePc # "input" /\ ~IsCalendarDay(dateSeed)) =>
        /\ parsed = HostDateParse(Trim(dateStr), host)
        /\ dateSeed.form \in TextForms => ~parsed.ok
        /\ (~host.mdy /\ ~host.lenient) => ~parsed.ok

\* 31/04/2024 matched pattern 2, failed the round trip, and came back null.
C2_Witness ==
    /\ datePc = "parsed"
    /\ dateStr = <<"3","1","/","0","4","/","2","0","2","4">>
    /\ ~parsed.ok

-----------------------------------------------------------------------------
(* getCategory                                                             *)

\* UTF-16 order of the characters in use; Array.prototype.sort compares by it.
CodeOrder == <<"\t", " ", "*", ",", "-", ".", "/">> \o DigitChars \o <<":">>
             \o UpperChars \o LowerChars \o <<"|">>

CharCode(c) == IndexIn(c, CodeOrder)

\* a < b as strings compare in JavaScript
RECURSIVE StrLess(_, _)
StrLess(a, b) ==
    IF b = <<>> THEN FALSE
    ELSE IF a = <<>> THEN TRUE
    ELSE IF Head(a) = Head(b) THEN StrLess(Tail(a), Tail(b))
    ELSE CharCode(Head(a)) < CharCode(Head(b))

\* String.prototype.startsWith / includes
StartsWith(s, prefix) ==
    Len(prefix) <= Len(s) /\ SubSeq(s, 1, Len(prefix)) = prefix

Includes(s, sub) ==
    \E i \in 1..(Len(s) - Len(sub) + 1) : SubSeq(s, i, i + Len(sub) - 1) = sub

RECURSIVE InsertSorted(_, _)
InsertSorted(sorted, x) ==
    IF sorted = <<>> THEN <<x>>
    ELSE IF StrLess(x, Head(sorted)) THEN <<x>> \o sorted
    ELSE <<Head(sorted)>> \o InsertSorted(Tail(sorted), x)

RECURSIVE SortFrom(_, _)
SortFrom(list, acc) ==
    IF list = <<>> THEN acc ELSE SortFrom(Tail(list), InsertSorted(acc, Head(list)))

\* A missing sort: the labels stay in the order they were found.
SortStringsSkipped(list) == list

\* Array.prototype.sort() with the default comparison
SortStrings(list) == SortFrom(list, <<>>)

\* Array.prototype.join
RECURSIVE Join(_, _)
Join(list, sep) ==
    IF list = <<>> THEN <<>>
    ELSE IF Len(list) = 1 THEN Head(list)
    ELSE Head(list) \o sep \o Join(Tail(list), sep)

\* The for-loop over categorizationMap.entries(): foundCategories is a Set, which
\* keeps each value once, in the order of first insertion.
RECURSIVE FindCategories(_, _, _)
FindCategories(desc, entries, foundCategories) ==
    IF entries = <<>> THEN foundCategories
    ELSE LET e == Head(entries)
             hit == Includes(desc, ToUpperCase(e.key))
             next == IF hit /\ e.value \notin Range(foundCategories)
                     THEN Append(foundCategories, e.value)
                     ELSE foundCategories
         IN FindCategories(desc, Tail(entries), next)

Other == <<"O", "t", "h", "e", "r">>

GetCategory(descr, table) ==
    LET desc == ToUpperCase(descr)
        foundCategories == FindCategories(desc, table, <<>>)
    IN IF Len(foundCategories) > 0
       THEN Join(SortStrings(foundCategories), <<"-">>)
       ELSE Other

-----------------------------------------------------------------------------
(* Categorizer inputs: keyword tables (a Map: distinct keys, any order) of *)
(* up to MaxTable entries and a handful of narrations.                     *)

MaxTable == 3

Keyword ==
    [zom |-> <<"Z","O","M">>, swig |-> <<"S","W","G">>, mart |-> <<"M","A","R","T">>,
     atm |-> <<"A","T","M">>, upi |-> <<"U","P","I">>]
Label ==
    [food |-> <<"F","O","O","D">>, grocery |-> <<"G","R","O","C","E","R","Y"," ","S","H","O","P">>,
     atm |-> <<"A","T","M">>, upi |-> <<"U","P","I">>]

TableEntries ==
    { [key |-> Keyword.zom, value |-> Label.food], [key |-> Keyword.swig, value |-> Label.food],
      [key |-> Keyword.mart, value |-> Label.grocery], [key |-> Keyword.atm, value |-> Label.atm],
      [key |-> Keyword.upi, value |-> Label.upi] }

SeqsUpTo(S, n) == UNION {[1..k -> S] : k \in 0..n}

Tables ==
    {t \in SeqsUpTo(TableEntries, MaxTable) :
        \A i, j \in DOMAIN t : i # j => t[i].key # t[j].key}

Narrations ==
    { <<>>,
      <<"S","a","l","a","r","y">>,
      <<"Z","o","m"," ","o","r","d","e","r">>,
      <<"A","T","M"," ","W","D","L">>,
      <<"u","p","i","-","z","o","m","-","s","w","g">>,
      <<"U","P","I"," ","m","a","r","t"," ","z","o","m">>,
      <<"s","m","a","r","t","m">> }

\* const category = getCategory(description)
GetCategoryStep ==
    /\ catPc = "input"
    /\ category' = GetCategory(description, categorizationMap)
    /\ catPc' = "done"
    /\ UNCHANGED <<categorizationMap, description, dateVars, parseVars, recordVars, keyVars, dedupeVars, ingestVars, analyticsVars>>

-----------------------------------------------------------------------------
(* Claims about the categorizer                                            *)

\* The labels of the keywords that occur in the upper-cased description.
MatchingLabels(descr, table) ==
    {table[i].value : i \in {j \in DOMAIN table : Includes(ToUpperCase(descr), table[j].key)}}

\* The one sequence that lists a set of strings in ascending order.
Ascending(S) ==
    CHOOSE q \in [1..Cardinality(S) -> S] :
        \A i, j \in DOMAIN q : i < j => StrLess(q[i], q[j])

Orderings(n) == {p \in [1..n -> 1..n] : \A i, j \in 1..n : i # j => p[i] # p[j]}

-----------------------------------------------------------------------------
(* processXlsData                                                          *)

\* Amounts are kept in thousandths.
Scale == 1000

\* JavaScript truthiness of a cell: undefined and the empty string are falsy.
Falsy(cell) == cell.kind = "undef" \/ (cell.kind = "str" /\ cell.s = <<>>)

\* String(cell): a Date object prints as text (its month, day and year here).
CellString(cell) ==
    IF cell.kind = "str" THEN cell.s
    ELSE IF cell.kind = "date"
    THEN <<ToUpperChar(monthMap[cell.m][1]), monthMap[cell.m][2], monthMap[cell.m][3], " ">>
         \o PadStart(NatToStr(cell.d), 2) \o <<" ">> \o NatToStr(cell.y)
    ELSE IF cell.kind = "baddate"
    THEN <<"I","n","v","a","l","i","d"," ","D","a","t","e">>
    ELSE <<"u","n","d","e","f","i","n","e","d">>

\* row[i] with the 1-based index i; past the row's end it is undefined.
Cell(row, i) == IF i \in DOMAIN row THEN row[i] ELSE Undefined

\* String(cell || '').trim().toLowerCase()
NormalizeCell(cell) ==
    ToLowerCase(Trim(IF Falsy(cell) THEN <<>> ELSE CellString(cell)))

NormalizeRow(row) == [i \in DOMAIN row |-> NormalizeCell(row[i])]

HdrDate == <<"d","a","t","e">>
HdrNarration == <<"n","a","r","r","a","t","i","o","n">>
HdrWithdrawal == <<"w","i","t","h","d","r","a","w","a","l"," ","a","m","t",".">>
HdrDeposit == <<"d","e","p","o","s","i","t"," ","a","m","t",".">>

\* row.includes('date') && row.includes('narration')
LooksLikeHeader(row) ==
    HdrDate \in Range(NormalizeRow(row)) /\ HdrNarration \in Range(NormalizeRow(row))

\* A wrong search: the last row that looks like a header.
LastHeaderRowIndex(rows) ==
    IF \E i \in DOMAIN rows : LooksLikeHeader(rows[i])
    THEN CHOOSE i \in DOMAIN rows :
            LooksLikeHeader(rows[i]) /\ \A j \in DOMAIN rows : j > i => ~LooksLikeHeader(rows[j])
    ELSE 0

\* The header search from the top; 0 stands for headerRowIndex === -1.
FindHeaderRowIndex(rows) ==
    IF \E i \in DOMAIN rows : LooksLikeHeader(rows[i])
    THEN CHOOSE i \in DOMAIN rows :
            LooksLikeHeader(rows[i]) /\ \A j \in DOMAIN rows : j < i => ~LooksLikeHeader(rows[j])
    ELSE 0

\* headerRow.indexOf(name.toLowerCase()): the first column with that name, 0 for -1.
FindColumnIndex(headerRow, name) ==
    IF ToLowerCase(name) \in Range(headerRow)
    THEN CHOOSE i \in DOMAIN headerRow :
            headerRow[i] = ToLowerCase(name) /\ \A j \in DOMAIN headerRow : j < i => headerRow[j] # ToLowerCase(name)
    ELSE 0

\* .replace(/[^0-9.-]/g, '')
RECURSIVE StripNonNumeric(_)
StripNonNumeric(s) ==
    IF s = <<>> THEN <<>>
    ELSE IF IsDigit(Head(s)) \/ Head(s) \in {".", "-"}
    THEN <<Head(s)>> \o StripNonNumeric(Tail(s))
    ELSE StripNonNumeric(Tail(s))

RECURSIVE DigitPrefix(_)
DigitPrefix(s) ==
    IF s # <<>> /\ IsDigit(Head(s)) THEN <<Head(s)>> \o DigitPrefix(Tail(s)) ELSE <<>>

\* parseFloat on a string of digits, '.', '-' : the longest prefix that is a decimal
\* literal, NaN when there is none.  Decimals past the third are dropped.
ParseFloat(s) ==
    LET neg == s # <<>> /\ Head(s) = "-"
        body == IF neg THEN Tail(s) ELSE s
        int == DigitPrefix(body)
        rest == SubSeq(body, Len(int) + 1, Len(body))
        frac == IF rest # <<>> /\ Head(rest) = "." THEN DigitPrefix(Tail(rest)) ELSE <<>>
        frac3 == SubSeq(frac \o <<"0", "0", "0">>, 1, 3)
        magnitude == ParseInt(int) * Scale + ParseInt(frac3)
    IN IF Len(int) + Len(frac) = 0 THEN [nan |-> TRUE, v |-> 0]
       ELSE [nan |-> FALSE, v |-> IF neg THEN -magnitude ELSE magnitude]

\* parseFloat(String(cell || '0').replace(/[^0-9.-]/g, '')) || 0
ParseAmountCell(cell) ==
    LET text == IF Falsy(cell) THEN <<"0">> ELSE CellString(cell)
        number == ParseFloat(StripNonNumeric(text))
    IN IF number.nan THEN 0 ELSE number.v

\* A wrong precedence: the withdrawal is looked at first.
DetermineAmountDebitFirst(credit, debit) ==
    IF debit > 0 THEN -debit ELSE IF credit > 0 THEN credit ELSE 0

\* if (credit > 0) amount = credit; else if (debit > 0) amount = -debit; else
\* return null (0 stands for "no transaction": no branch that assigns gives 0).
DetermineAmount(credit, debit) ==
    IF credit > 0 THEN credit ELSE IF debit > 0 THEN -debit ELSE 0

\* The callback of dataRows.map: <<>> stands for null, <<t>> for a transaction.
ProcessRow(row, dateIndex, narrationIndex, withdrawalIndex, depositIndex, h, table) ==
    IF Len(row) = 0
       \/ StartsWith(Trim(IF Falsy(Cell(row, 1)) THEN <<>> ELSE CellString(Cell(row, 1))), <<"*">>)
    THEN <<>>
    ELSE
    LET dateInput == Cell(row, dateIndex)
        descr == Cell(row, narrationIndex)
        debitStr == Cell(row, withdrawalIndex)
        creditStr == Cell(row, depositIndex)
    IN IF Falsy(dateInput) \/ Falsy(descr) \/ Trim(CellString(descr)) = <<>> THEN <<>>
       ELSE LET parsedDate == ParseDate(dateInput, h)
                debit == ParseAmountCell(debitStr)
                credit == ParseAmountCell(creditStr)
                amount == DetermineAmount(credit, debit)
            IN IF ~parsedDate.ok THEN <<>>
               ELSE IF amount = 0 THEN <<>>
               ELSE << [date |-> FormatDate(parsedDate),
                        description |-> Trim(CellString(descr)),
                        amount |-> amount,
                        type |-> IF amount > 0 THEN "credit" ELSE "debit",
                        category |-> GetCategory(CellString(descr), table)] >>

\* A wrong filter: everything after the first null is lost.
RECURSIVE TakeUntilNull(_)
TakeUntilNull(results) ==
    IF results = <<>> \/ Head(results) = <<>> THEN <<>>
    ELSE Head(results) \o TakeUntilNull(Tail(results))

\* .filter(t => t !== null)
RECURSIVE FilterNonNull(_)
FilterNonNull(results) ==
    IF results = <<>> THEN <<>> ELSE Head(results) \o FilterNonNull(Tail(results))

Returned(transactions) == [status |-> "ok", transactions |-> transactions]
Thrown(error) == [status |-> error, transactions |-> <<>>]

\* processXlsData from the decoded rows on.
ProcessXlsData(rows, h, table) ==
    IF Len(rows) = 0 THEN Returned(<<>>)
    ELSE
    LET headerRowIndex == FindHeaderRowIndex(rows)
    IN IF headerRowIndex = 0 THEN Thrown("Could not find transaction headers")
       ELSE
       LET headerRow == NormalizeRow(rows[headerRowIndex])
           dataRows == SubSeq(rows, headerRowIndex + 1, Len(rows))
           dateIndex == FindColumnIndex(headerRow, HdrDate)
           narrationIndex == FindColumnIndex(headerRow, HdrNarration)
           withdrawalIndex == FindColumnIndex(headerRow, HdrWithdrawal)
           depositIndex == FindColumnIndex(headerRow, HdrDeposit)
       IN IF dateIndex = 0 \/ narrationIndex = 0 \/ withdrawalIndex = 0 \/ depositIndex = 0
          THEN Thrown("Could not find all required columns")
          ELSE Returned(FilterNonNull(
                   [i \in DOMAIN dataRows |->
                       ProcessRow(dataRows[i], dateIndex, narrationIndex, withdrawalIndex,
                                  depositIndex, h, table)]))

-----------------------------------------------------------------------------
(* Statement parser: inputs and steps                                      *)

MaxDataRows == 2

\* Rows of a statement: what may stand above the header row, header rows (the
\* columns are serial, date, narration and the two amounts), and data rows.
Row ==
    [title |-> << StrVal(<<"H","D","F","C"," ","B","a","n","k">>) >>,
     period |-> << StrVal(<<"D","a","t","e">>), StrVal(<<"P","e","r","i","o","d">>) >>,
     shortHeader |->
        << StrVal(<<"d","a","t","e">>), StrVal(<<"N","a","r","r","a","t","i","o","n">>) >>,
     fullHeader |->
        << StrVal(<<>>), StrVal(<<" ","D","a","t","e">>),
           StrVal(<<"N","A","R","R","A","T","I","O","N"," ">>),
           StrVal(<<"W","i","t","h","d","r","a","w","a","l"," ","A","m","t",".">>),
           StrVal(<<"D","e","p","o","s","i","t"," ","A","m","t",".">>) >>,
     swappedHeader |->
        << StrVal(<<"S","r">>), StrVal(<<"D","a","t","e">>),
           StrVal(<<"N","a","r","r","a","t","i","o","n">>),
           StrVal(<<"D","e","p","o","s","i","t"," ","A","m","t",".">>),
           StrVal(<<"W","i","t","h","d","r","a","w","a","l"," ","A","m","t",".">>) >>,
     noDepositHeader |->
        << StrVal(<<"S","r">>), StrVal(<<"D","a","t","e">>),
           StrVal(<<"N","a","r","r","a","t","i","o","n">>),
           StrVal(<<"W","i","t","h","d","r","a","w","a","l"," ","A","m","t",".">>) >>,
     debit |->
        << StrVal(<<"1">>), StrVal(<<"0","1","/","0","3","/","2","0","2","5">>),
           StrVal(<<"A","T","M"," ","W","D","L">>), StrVal(<<"5","0","0","0">>) >>,
     credit |->
        << StrVal(<<"2">>), StrVal(<<"0","2","-","M","a","r","-","2","5">>),
           StrVal(<<"S","a","l","a","r","y">>), Undefined,
           StrVal(<<"7","5","0","0","0",".","0","0","4">>) >>,
     bothAmounts |->
        << StrVal(<<"3">>), DateVal(2025, 3, 3), StrVal(<<" ","U","P","I"," ","Z","O","M"," ">>),
           StrVal(<<"2","5","0",".","5","0">>),
           StrVal(<<"1",",","0","0",",","0","0","0",".","0","0">>) >>,
     star |->
        << StrVal(<<"*","*">>), StrVal(<<"0","4","/","0","3","/","2","0","2","5">>),
           StrVal(<<"Z","O","M">>), StrVal(<<"1","0">>), StrVal(<<>>) >>,
     spacedStar |->
        << StrVal(<<" ","*">>), StrVal(<<"0","4","/","0","3","/","2","0","2","5">>),
           StrVal(<<"Z","O","M">>), StrVal(<<>>), StrVal(<<"1","0">>) >>,
     empty |-> << >>,
     noDate |-> << StrVal(<<"5">>) >>,
     blankNarration |->
        << StrVal(<<"6">>), StrVal(<<"0","5","/","0","3","/","2","0","2","5">>),
           StrVal(<<" "," ">>), StrVal(<<"1","0">>), StrVal(<<>>) >>,
     hostDated |->
        << StrVal(<<"7">>), StrVal(<<"9","/","1","3","/","2","0","2","5">>),
           StrVal(<<"M","A","R","T">>), StrVal(<<"R","s",".","2","0",".","5">>),
           StrVal(<<"0",".","0","0">>) >>,
     noAmount |->
        << StrVal(<<"8">>), StrVal(<<"2","0","2","5","-","0","3","-","0","6">>),
           StrVal(<<"U","P","I">>), StrVal(<<"-","5","0","0">>), StrVal(<<"a","b","c">>) >>,
     padded |->
        << StrVal(<<"9">>), StrVal(<<"0","7","/","0","3","/","2","0","2","5">>),
           StrVal(<<" ","a","t","m"," ","f","e","e"," ","z","o","m"," ">>),
           StrVal(<<"1","0">>), StrVal(<<>>) >>]

\* A sheet: a preamble, one header row or none, and up to MaxDataRows data rows.
Sheets ==
    LET preambles == { <<>>, <<Row.shortHeader>>, <<Row.title, Row.period>>,
                       <<Row.title, Row.period, Row.title>> }
        headers == { <<Row.fullHeader>>, <<Row.swappedHeader>>, <<Row.noDepositHeader>>, <<>> }
        dataRows == { Row.debit, Row.credit, Row.bothAmounts, Row.star, Row.spacedStar,
                      Row.empty, Row.noDate, Row.blankNarration, Row.hostDated, Row.noAmount }
    IN { pre \o hdr \o rows :
            pre \in preambles, hdr \in headers, rows \in SeqsUpTo(dataRows, MaxDataRows) }

\* The categorisation table the parser runs with.
ParserTable ==
    << [key |-> Keyword.zom, value |-> Label.food], [key |-> Keyword.atm, value |-> Label.atm],
       [key |-> Keyword.upi, value |-> Label.upi] >>

\* Sheets whose narrations differ in the whitespace around them, and tables
\* with and without keywords that begin or end with a space.
NarrationSheets ==
    { <<Row.fullHeader>> \o rows :
        rows \in SeqsUpTo({Row.debit, Row.credit, Row.bothAmounts, Row.padded, Row.noAmount},
                          MaxDataRows) }

NarrationTables ==
    { ParserTable,
      Append(ParserTable, [key |-> <<"Z","O","M"," ">>, value |-> Label.grocery]),
      <<[key |-> <<" ","a","t","m">>, value |-> Label.atm]>> }

ParserHosts == { [mdy |-> TRUE, lenient |-> FALSE], [mdy |-> FALSE, lenient |-> FALSE] }

ProcessXlsDataStep ==
    /\ parsePc = "input"
    /\ parseOutcome' = ProcessXlsData(aoa, host, categorizationMap)
    /\ parsePc' = "done"
    /\ UNCHANGED <<aoa, dateVars, catVars, recordVars, keyVars, dedupeVars, ingestVars, analyticsVars>>

-----------------------------------------------------------------------------
(* Statement parser: properties                                            *)

ParseDone == parsePc = "done"

\* A row "contains" a header name when one of its cells is that name after
\* trimming and lower-casing.
ContainsName(row, name) == name \in Range(NormalizeRow(row))

RowsWithBoth ==
    {i \in DOMAIN aoa : ContainsName(aoa[i], HdrDate) /\ ContainsName(aoa[i], HdrNarration)}

\* h, the topmost row containing both 'date' and 'narration'.
TopHeader == CHOOSE i \in RowsWithBoth : \A j \in RowsWithBoth : i <= j

RequiredHeaders == {HdrDate, HdrNarration, HdrWithdrawal, HdrDeposit}

LacksRequired(row) == ~(RequiredHeaders \subseteq Range(NormalizeRow(row)))

HeaderFound == RowsWithBoth # {} /\ ~LacksRequired(aoa[TopHeader])

\* The column of a required header: the first cell of the header row carrying
\* the name.
ColumnOf(names, name) ==
    CHOOSE i \in DOMAIN names : names[i] = name /\ \A j \in DOMAIN names : j < i => names[j] # name

Columns(headerRow) ==
    LET names == NormalizeRow(headerRow)
    IN [date |-> ColumnOf(names, HdrDate), narration |-> ColumnOf(names, HdrNarration),
        withdrawal |-> ColumnOf(names, HdrWithdrawal), deposit |-> ColumnOf(names, HdrDeposit)]

Withdrawal(row, cols) == ParseAmountCell(Cell(row, cols.withdrawal))
Deposit(row, cols) == ParseAmountCell(Cell(row, cols.deposit))

FirstCellText(row) == IF Falsy(Cell(row, 1)) THEN <<>> ELSE CellString(Cell(row, 1))

\* The skip reasons that do not look at the amounts; firstCell is the text in
\* which a leading '*' is looked for.
UnreadableBy(row, cols, firstCell) ==
    \/ row = <<>>
    \/ StartsWith(firstCell, <<"*">>)
    \/ Falsy(Cell(row, cols.date))
    \/ Falsy(Cell(row, cols.narration))
    \/ Trim(CellString(Cell(row, cols.narration))) = <<>>
    \/ ~ParseDate(Cell(row, cols.date), host).ok

NoAmount(row, cols) == Deposit(row, cols) <= 0 /\ Withdrawal(row, cols) <= 0

\* Skipped, the first cell taken as it stands.
SkippedAsWritten(row, cols) ==
    UnreadableBy(row, cols, FirstCellText(row)) \/ NoAmount(row, cols)

\* Skipped, the first cell trimmed before the '*' is looked for.
Unreadable(row, cols) == UnreadableBy(row, cols, Trim(FirstCellText(row)))

Skipped(row, cols) == Unreadable(row, cols) \/ NoAmount(row, cols)

\* The output is, in order, one transaction for each row after h that is kept,
\* each the transaction the row gives under the header alone.
OneTransactionPerRow(KeptRow(_)) ==
    LET h == TopHeader
        cols == Columns(aoa[h])
        kept == SelectSeq(SubSeq(aoa, h + 1, Len(aoa)), KeptRow)
        out == parseOutcome.transactions
    IN /\ parseOutcome.status = "ok"
       /\ Len(out) = Len(kept)
       /\ \A k \in DOMAIN kept :
            /\ <<out[k]>> = ProcessXlsData(<<aoa[h], kept[k]>>, host, categorizationMap).transactions
            /\ out[k].description = Trim(CellString(Cell(kept[k], cols.narration)))

\* C3: a sheet with zero rows makes the parser fail with an error rather than
\* return an empty list.
C3_EmptySheetFails ==
    (ParseDone /\ aoa = <<>>) => parseOutcome.status # "ok"

\* C4: on a non-empty sheet the parser fails, returning no transactions, exactly
\* when no row contains both 'date' and 'narration' or the topmost such row
\* lacks one of the four required headers; on every other non-empty sheet it
\* returns a list.
C4_FailsIffNoUsableHeader ==
    (ParseDone /\ aoa # <<>>) =>
        /\ parseOutcome.status # "ok" <=> ~HeaderFound
        /\ parseOutcome.status # "ok" => parseOutcome.transactions = <<>>

C4_Witness ==
    /\ ParseDone
    /\ Len(aoa) >= 2
    /\ aoa[1] = Row.shortHeader
    /\ aoa[2] = Row.fullHeader
    /\ parseOutcome.status # "ok"

\* C5 as stated: with a valid header at row h the output is, in row order,
\* exactly one transaction for each row after h that is not skipped (row empty,
\* first cell starting with '*', missing date, blank description, unparseable
\* date, no positive deposit or withdrawal); rows at or above h and skipped rows
\* give nothing and change nothing about the others.
C5_OneTransactionPerRowNotSkipped ==
    (ParseDone /\ aoa # <<>> /\ HeaderFound) =>
        LET KeptAsWritten(row) == ~SkippedAsWritten(row, Columns(aoa[TopHeader]))
        IN OneTransactionPerRow(KeptAsWritten)

\* C5, amended: the same, a row being skipped for its first cell when that cell
\* starts with '*' once the blanks around it are trimmed.
C5_OneTransactionPerKeptRow ==
    (ParseDone /\ aoa # <<>> /\ HeaderFound) =>
        LET Kept(row) == ~Skipped(row, Columns(aoa[TopHeader]))
        IN OneTransactionPerRow(Kept)

C5_Witness ==
    /\ ParseDone /\ aoa # <<>> /\ HeaderFound
    /\ TopHeader > 1
    /\ Len(aoa) = TopHeader + 2
    /\ aoa[TopHeader + 1] = Row.spacedStar
    /\ Skipped(aoa[TopHeader + 1], Columns(aoa[TopHeader]))
    /\ ~Skipped(aoa[TopHeader + 2], Columns(aoa[TopHeader]))
    /\ Len(parseOutcome.transactions) = 1

\* C6: for every row the parser accepts, a deposit above zero is the amount even
\* when the withdrawal is above zero too; otherwise a withdrawal above zero gives
\* the amount minus the withdrawal; otherwise the row gives no transaction.  No
\* parsed amount is zero.
C6_DepositBeforeWithdrawal ==
    (ParseDone /\ aoa # <<>> /\ HeaderFound) =>
        LET h == TopHeader
            cols == Columns(aoa[h])
            Readable(row) == ~Unreadable(row, cols)
            rows == SelectSeq(SubSeq(aoa, h + 1, Len(aoa)), Readable)
            ExpectedAmount(row) ==
                LET deposit == Deposit(row, cols)
                    withdrawal == Withdrawal(row, cols)
                IN IF deposit > 0 THEN <<deposit>>
                   ELSE IF withdrawal > 0 THEN <<-withdrawal>> ELSE <<>>
            expected == FilterNonNull([k \in DOMAIN rows |-> ExpectedAmount(rows[k])])
            out == parseOutcome.transactions
        IN /\ Len(out) = Len(expected)
           /\ \A k \in DOMAIN out : out[k].amount = expected[k] /\ out[k].amount # 0

C6_Witness ==
    /\ ParseDone /\ aoa # <<>> /\ HeaderFound
    /\ Len(aoa) > TopHeader
    /\ aoa[TopHeader + 1] = Row.bothAmounts
    /\ Deposit(Row.bothAmounts, Columns(aoa[TopHeader])) > 0
    /\ Withdrawal(Row.bothAmounts, Columns(aoa[TopHeader])) > 0
    /\ parseOutcome.transactions[1].amount = Deposit(Row.bothAmounts, Columns(aoa[TopHeader]))

\* C25: every transaction the parser returns has the category getCategory
\* gives for the description stored in it (the trimmed narration), so that
\* recomputing the category from the stored description changes nothing.
C25_CategoryOfStoredDescription ==
    ParseDone
    => \A k \in DOMAIN parseOutcome.transactions :
          parseOutcome.transactions[k].category
             = GetCategory(parseOutcome.transactions[k].description, categorizationMap)

-----------------------------------------------------------------------------
(* mapRowToTransaction and EditTransactionModal                            *)

\* a ?? b ?? fallback, a column being <<>> when null or missing, <<v>> otherwise
Coalesce(a, b, fallback) ==
    IF a # <<>> THEN a[1] ELSE IF b # <<>> THEN b[1] ELSE fallback

\* A raw amount column: a number (in thousandths) or its text.
NumberValue(n) == [isNumber |-> TRUE, n |-> n, s |-> <<>>]
NumericText(s) == [isNumber |-> FALSE, n |-> 0, s |-> s]

\* A wrong mapping: only the lower-case columns of a row are read.
MapRowLowerCaseOnly(r) ==
    LET rawAmount == Coalesce(r.amount, <<>>, NumberValue(0))
        amount == IF rawAmount.isNumber THEN rawAmount.n ELSE ParseFloat(rawAmount.s).v
    IN [id |-> r.id,
        user_id |-> r.user_id,
        date |-> r.date,
        description |-> Coalesce(r.description, <<>>, <<>>),
        amount |-> amount,
        category |-> Coalesce(r.category, <<>>, Other),
        type |-> IF amount >= 0 THEN "credit" ELSE "debit"]

\* The amount columns of the table are numeric: their text always parses.
MapRowToTransaction(r) ==
    LET descr == Coalesce(r.description, r.Description, <<>>)
        rawAmount == Coalesce(r.amount, r.Amount, NumberValue(0))
        amount == IF rawAmount.isNumber THEN rawAmount.n ELSE ParseFloat(rawAmount.s).v
        cat == Coalesce(r.category, r.Category, Other)
    IN [id |-> r.id,
        user_id |-> r.user_id,
        date |-> r.date,
        description |-> descr,
        amount |-> amount,
        category |-> cat,
        type |-> IF amount >= 0 THEN "credit" ELSE "debit"]

\* setFormData(prev => ({ ...prev, [name]: value }))
HandleChangeResult(prev, name, value) == [prev EXCEPT ![name] = value]

\* const amount = parseFloat(e.target.value); amount: isNaN(amount) ? 0 : amount,
\* type: amount > 0 ? 'credit' : 'debit'   (NaN > 0 is false)
HandleAmountChangeResult(prev, value) ==
    LET amount == ParseFloat(value)
    IN [prev EXCEPT !.amount = IF amount.nan THEN 0 ELSE amount.v,
                    !.type = IF ~amount.nan /\ amount.v > 0 THEN "credit" ELSE "debit"]

Text ==
    [day1 |-> <<"2","0","2","5","-","0","3","-","0","1">>,
     spacedDay1 |-> <<" ","2","0","2","5","-","0","3","-","0","1"," ">>,
     day2 |-> <<"2","0","2","5","-","0","3","-","0","2">>,
     testItem |-> <<"T","e","s","t"," ","I","t","e","m">>,
     spacedTestItem |-> <<" ","t","e","s","t"," ","i","t","e","m"," ">>,
     barItem |-> <<"T","e","s","t","|","1">>,
     rent |-> <<"R","e","n","t">>]

LedgerRows ==
    LET descriptions ==
            { [lower |-> <<Text.testItem>>, legacy |-> <<>>],
              [lower |-> <<>>, legacy |-> <<Text.testItem>>],
              [lower |-> <<>>, legacy |-> <<>>] }
        amounts ==
            { [lower |-> <<NumberValue(-5000000)>>, legacy |-> <<>>],
              [lower |-> <<NumberValue(0)>>, legacy |-> <<>>],
              [lower |-> <<NumberValue(250500)>>, legacy |-> <<NumberValue(-1)>>],
              [lower |-> <<>>, legacy |-> <<NumberValue(-1200000)>>],
              [lower |-> <<>>, legacy |-> <<NumericText(<<"1","2",".","5","0">>)>>],
              [lower |-> <<>>, legacy |-> <<>>] }
        categories ==
            { [lower |-> <<Label.food>>, legacy |-> <<>>],
              [lower |-> <<>>, legacy |-> <<Label.atm>>],
              [lower |-> <<>>, legacy |-> <<>>] }
    IN { [id |-> 7, user_id |-> "user-1", date |-> Text.day1,
          description |-> d.lower, Description |-> d.legacy,
          amount |-> a.lower, Amount |-> a.legacy,
          category |-> c.lower, Category |-> c.legacy] :
            d \in descriptions, a \in amounts, c \in categories }

\* What the amount field (input type="number") can hand to the handler.
AmountEntries ==
    { <<>>, <<"0">>, <<"0",".","0","0">>, <<"1","2",".","5">>, <<"-","4","0">> }

FieldEntries ==
    { [name |-> "date", value |-> Text.day2], [name |-> "description", value |-> Text.rent],
      [name |-> "category", value |-> Label.grocery] }

BlankTransaction ==
    [id |-> 0, user_id |-> "", date |-> <<>>, description |-> <<>>, amount |-> 0,
     category |-> <<>>, type |-> "credit"]

BlankRow ==
    [id |-> 0, user_id |-> "", date |-> <<>>, description |-> <<>>, Description |-> <<>>,
     amount |-> <<>>, Amount |-> <<>>, category |-> <<>>, Category |-> <<>>]

\* (data ?? []).map(mapRowToTransaction)
MapRowStep ==
    /\ editPc = "row"
    /\ transaction' = MapRowToTransaction(ledgerRow)
    /\ editPc' = "closed"
    /\ UNCHANGED <<ledgerRow, formData, dateVars, catVars, parseVars, keyVars, dedupeVars, ingestVars, analyticsVars>>

\* The modal opens on the record: useState(transaction).
OpenEdit ==
    /\ editPc = "closed"
    /\ formData' = transaction
    /\ editPc' = "open"
    /\ UNCHANGED <<ledgerRow, transaction, dateVars, catVars, parseVars, keyVars, dedupeVars, ingestVars, analyticsVars>>

HandleChange ==
    /\ editPc = "open"
    /\ \E e \in FieldEntries : formData' = HandleChangeResult(formData, e.name, e.value)
    /\ UNCHANGED <<ledgerRow, transaction, editPc, dateVars, catVars, parseVars, keyVars, dedupeVars, ingestVars, analyticsVars>>

HandleAmountChange ==
    /\ editPc = "open"
    /\ \E value \in AmountEntries : formData' = HandleAmountChangeResult(formData, value)
    /\ UNCHANGED <<ledgerRow, transaction, editPc, dateVars, catVars, parseVars, keyVars, dedupeVars, ingestVars, analyticsVars>>

\* onClose
CloseEdit ==
    /\ editPc = "open"
    /\ editPc' = "closed"
    /\ UNCHANGED <<ledgerRow, transaction, formData, dateVars, catVars, parseVars, keyVars, dedupeVars, ingestVars, analyticsVars>>

TypeFollowsSign(t) == (t.type = "credit" <=> t.amount >= 0) /\ t.type \in {"credit", "debit"}

\* C7: every transaction record (a candidate of the parser, a ledger record
\* loaded through mapRowToTransaction, the edit form's working copy) has type
\* 'credit' exactly when its amount is at least zero, and 'debit' otherwise.
C7_TypeIsCreditIffNonNegative ==
    /\ \A k \in DOMAIN parseOutcome.transactions : TypeFollowsSign(parseOutcome.transactions[k])
    /\ editPc \in {"closed", "open"} => TypeFollowsSign(transaction)
    /\ editPc = "open" => TypeFollowsSign(formData)

-----------------------------------------------------------------------------
(* makeTransactionKey and filterDuplicateStaged                            *)

\* A wrong rendering: the third decimal is cut off, not rounded.
ToFixed2Truncated(n) ==
    LET magnitude == IF n < 0 THEN -n ELSE n
        hundredths == (magnitude * 100) \div Scale
    IN (IF n < 0 THEN <<"-">> ELSE <<>>)
       \o NatToStr(hundredths \div 100) \o <<".">> \o PadStart(NatToStr(hundredths % 100), 2)

\* Number.prototype.toFixed(2) of n thousandths: a '-' for every value below
\* zero, then the magnitude rounded to hundredths (an exact half goes up).
ToFixed2(n) ==
    LET magnitude == IF n < 0 THEN -n ELSE n
        hundredths == (magnitude * 100 + Scale \div 2) \div Scale
    IN (IF n < 0 THEN <<"-">> ELSE <<>>)
       \o NatToStr(hundredths \div 100) \o <<".">> \o PadStart(NatToStr(hundredths % 100), 2)

\* `${date}|${desc}|${amt}`
MakeTransactionKey(t) ==
    Trim(t.date) \o <<"|">> \o ToLowerCase(Trim(t.description)) \o <<"|">> \o ToFixed2(t.amount)

\* A wrong filter: a candidate repeating an earlier candidate's key is dropped too.
RECURSIVE FilterDistinctStaged(_, _)
FilterDistinctStaged(list, existing) ==
    IF list = <<>> THEN [newOnes |-> <<>>, duplicateCount |-> 0]
    ELSE LET t == list[Len(list)]
             before == FilterDistinctStaged(SubSeq(list, 1, Len(list) - 1), existing)
             seen == existing \cup {MakeTransactionKey(before.newOnes[i]) : i \in DOMAIN before.newOnes}
         IN IF MakeTransactionKey(t) \in seen
            THEN [before EXCEPT !.duplicateCount = @ + 1]
            ELSE [before EXCEPT !.newOnes = Append(@, t)]

\* for (const t of staged) { if (existingKeys.has(key)) duplicateCount++; else newOnes.push(t); }
RECURSIVE FilterDuplicateStaged(_, _)
FilterDuplicateStaged(list, existing) ==
    IF list = <<>> THEN [newOnes |-> <<>>, duplicateCount |-> 0]
    ELSE LET t == list[Len(list)]
             before == FilterDuplicateStaged(SubSeq(list, 1, Len(list) - 1), existing)
         IN IF MakeTransactionKey(t) \in existing
            THEN [before EXCEPT !.duplicateCount = @ + 1]
            ELSE [before EXCEPT !.newOnes = Append(@, t)]

Candidate(date, descr, amount, cat) ==
    [date |-> date, description |-> descr, amount |-> amount,
     type |-> IF amount > 0 THEN "credit" ELSE "debit", category |-> cat]

KeyTransactions ==
    LET dates == {Text.day1, Text.spacedDay1, Text.day2}
        descriptions == {Text.testItem, Text.spacedTestItem, Text.barItem}
        amounts == {123456, 123460, 123454, -123456, -4, 4, 0}
        extras == { [id |-> 0, type |-> "debit", category |-> Other],
                    [id |-> 7, type |-> "credit", category |-> Label.food] }
    IN { [id |-> x.id, date |-> d, description |-> n, amount |-> a, type |-> x.type,
          category |-> x.category] :
            d \in dates, n \in descriptions, a \in amounts, x \in extras }

MakeTransactionKeyStep ==
    /\ keyPc = "input"
    /\ keys' = <<MakeTransactionKey(keyInputs[1]), MakeTransactionKey(keyInputs[2])>>
    /\ keyPc' = "done"
    /\ UNCHANGED <<keyInputs, dateVars, catVars, parseVars, recordVars, dedupeVars, ingestVars, analyticsVars>>

MaxStaged == 3

StagedPool ==
    { Candidate(Text.day1, Text.testItem, 123456, Other),
      Candidate(Text.spacedDay1, Text.spacedTestItem, 123460, Label.food),
      Candidate(Text.day2, Text.rent, -5000000, Other),
      Candidate(Text.day1, Text.testItem, -4, Other) }

ExistingKeyPool ==
    { MakeTransactionKey(Candidate(Text.day1, Text.testItem, 123456, Other)),
      MakeTransactionKey(Candidate(Text.day2, Text.rent, -5000000, Label.atm)),
      MakeTransactionKey(Candidate(Text.day2, Text.testItem, 0, Other)) }

\* const { newOnes, duplicateCount } = filterDuplicateStaged(stagedTransactions, existingKeySet)
FilterDuplicateStagedStep ==
    /\ dedupePc = "input"
    /\ newOnes' = FilterDuplicateStaged(staged, existingKeys).newOnes
    /\ duplicateCount' = FilterDuplicateStaged(staged, existingKeys).duplicateCount
    /\ dedupePc' = "done"
    /\ UNCHANGED <<staged, existingKeys, dateVars, catVars, parseVars, recordVars, keyVars, ingestVars, analyticsVars>>

-----------------------------------------------------------------------------
(* Duplicate filter: properties                                            *)

KeysDone == keyPc = "done"

\* The amount rounded to two decimals, in hundredths.
Round2(n) ==
    IF n < 0 THEN -((-n * 100 + Scale \div 2) \div Scale)
    ELSE (n * 100 + Scale \div 2) \div Scale

SameDateAndDescription(a, b) ==
    /\ Trim(a.date) = Trim(b.date)
    /\ ToLowerCase(Trim(a.description)) = ToLowerCase(Trim(b.description))

\* C9 as stated: two transactions get equal keys exactly when their trimmed
\* dates are equal, their trimmed lower-cased descriptions are equal and their
\* amounts agree when rounded to two decimals.
C9_KeyEqualIffRoundedAmountsAgree ==
    KeysDone =>
        (keys[1] = keys[2] <=>
            /\ SameDateAndDescription(keyInputs[1], keyInputs[2])
            /\ Round2(keyInputs[1].amount) = Round2(keyInputs[2].amount))

\* C9, amended: two transactions get equal keys exactly when their trimmed
\* dates are equal, their trimmed lower-cased descriptions are equal, their
\* amounts agree when rounded to two decimals and, when they round to zero, are
\* both below zero or both not; category, type and id play no part.
C9_KeyEqualIffSameRendering ==
    KeysDone =>
        (keys[1] = keys[2] <=>
            /\ SameDateAndDescription(keyInputs[1], keyInputs[2])
            /\ Round2(keyInputs[1].amount) = Round2(keyInputs[2].amount)
            /\ Round2(keyInputs[1].amount) = 0 =>
                   (keyInputs[1].amount < 0 <=> keyInputs[2].amount < 0))

C9_Witness ==
    /\ KeysDone
    /\ keys[1] = keys[2]
    /\ keyInputs[1].date # keyInputs[2].date
    /\ keyInputs[1].description # keyInputs[2].description
    /\ keyInputs[1].amount # keyInputs[2].amount
    /\ keyInputs[1].category # keyInputs[2].category
    /\ keyInputs[1].type # keyInputs[2].type
    /\ keyInputs[1].id # keyInputs[2].id

IsDuplicate(t) == MakeTransactionKey(t) \in existingKeys
IsNew(t) == ~IsDuplicate(t)

\* C10: filterDuplicateStaged partitions staged: newOnes is the subsequence of
\* staged, in input order, whose key is not in existingKeys; duplicateCount is
\* the number of staged entries whose key is in existingKeys; the two add up to
\* the length of staged; staged and existingKeys are left as they were.
C10_Partition ==
    /\ [](dedupePc = "done" =>
            /\ newOnes = SelectSeq(staged, IsNew)
            /\ duplicateCount = Cardinality({i \in DOMAIN staged : IsDuplicate(staged[i])})
            /\ duplicateCount + Len(newOnes) = Len(staged))
    /\ [][staged' = staged /\ existingKeys' = existingKeys]_vars

C10_Witness ==
    /\ dedupePc = "done"
    /\ Len(staged) = 3
    /\ IsDuplicate(staged[1]) /\ IsNew(staged[2]) /\ IsDuplicate(staged[3])
    /\ MakeTransactionKey(staged[1]) = MakeTransactionKey(staged[3])
    /\ duplicateCount = 2
    /\ newOnes = <<staged[2]>>

-----------------------------------------------------------------------------
(* Ingestion: staging, confirmation, insert and refresh                    *)

RECURSIVE SumSeq(_)
SumSeq(s) == IF s = <<>> THEN 0 ELSE Head(s) + SumSeq(Tail(s))

Abs(n) == IF n < 0 THEN -n ELSE n

\* Array.prototype.sort with a comparator: a stable sort; Before(a, b) is
\* "the comparator is negative for (a, b)".
StableSort(s, Before(_, _)) ==
    LET rank(i) ==
            1 + Cardinality({j \in DOMAIN s :
                    Before(s[j], s[i]) \/ (~Before(s[i], s[j]) /\ j < i)})
    IN [k \in DOMAIN s |-> s[CHOOSE i \in DOMAIN s : rank(i) = k]]

Amounts(transactions) == [k \in DOMAIN transactions |-> transactions[k].amount]

\* filter(type === 'credit').reduce(sum); Math.abs(filter(type === 'debit').reduce(sum))
AnalyzeTransactions(transactions) ==
    LET totalIncome ==
            SumSeq(Amounts(SelectSeq(transactions, LAMBDA t : t.type = "credit")))
        totalExpenses ==
            Abs(SumSeq(Amounts(SelectSeq(transactions, LAMBDA t : t.type = "debit"))))
    IN [summary |-> [totalIncome |-> totalIncome, totalExpenses |-> totalExpenses,
                     netSavings |-> totalIncome - totalExpenses],
        transactions |-> transactions]

\* A lower-case amount, category or description moves to the capitalised
\* column, unless the row names that column too.
NormalizeWriteRow(row) ==
    LET shift(r, from, to) ==
            IF r[from] # <<>> /\ r[to] = <<>>
            THEN [r EXCEPT ![to] = r[from], ![from] = <<>>]
            ELSE r
    IN shift(shift(shift(row, "amount", "Amount"), "category", "Category"),
             "description", "Description")

\* newOnes.map(t => ({ user_id, date, description, amount, category }))
InsertPayload(candidates, userId) ==
    [k \in DOMAIN candidates |->
        [user_id |-> userId, date |-> candidates[k].date,
         description |-> <<candidates[k].description>>, Description |-> <<>>,
         amount |-> <<NumberValue(candidates[k].amount)>>, Amount |-> <<>>,
         category |-> <<candidates[k].category>>, Category |-> <<>>]]

\* A table with a uniqueness rule the backend does not have: a row whose
\* key is already stored is dropped.
InsertUnlessStored(rows, payload) ==
    LET keyOf(r) == MakeTransactionKey(MapRowToTransaction([id |-> 0] @@ r))
        fresh == SelectSeq(payload, LAMBDA p :
                    \A k \in DOMAIN rows : keyOf(rows[k]) # keyOf(p))
    IN rows \o [k \in DOMAIN fresh |-> [id |-> Len(rows) + k] @@ fresh[k]]

\* from('transactions').insert(normalized): every row is stored, under a new id
InsertInto(rows, payload) ==
    rows \o [k \in DOMAIN payload |-> [id |-> Len(rows) + k] @@ payload[k]]

\* select('*').eq('user_id', userId).order('date', { ascending: false }),
\* then (data || []).map(mapRowToTransaction)
SelectTransactions(rows, userId) ==
    LET own == SelectSeq(rows, LAMBDA r : r.user_id = userId)
        ordered == StableSort(own, LAMBDA a, b : StrLess(b.date, a.date))
    IN [k \in DOMAIN ordered |-> MapRowToTransaction(ordered[k])]

\* new Set(analysisResult.transactions.map(t => makeTransactionKey({...})))
ExistingKeySet(transactions) ==
    {MakeTransactionKey(transactions[k]) : k \in DOMAIN transactions}

MaxLedger == 3

UserId == "user-1"

NoMessage == [kind |-> "none", inserted |-> 0, skipped |-> 0]
NoRequest == [batch |-> <<>>, rows |-> <<>>, duplicateCount |-> 0]

\* What an upload can stage: parsed statements of one to three rows.
Batches ==
    LET item == Candidate(Text.day1, Text.testItem, 123456, Other)
        again == Candidate(Text.day1, Text.testItem, 123460, Label.food)
        rent == Candidate(Text.day2, Text.rent, -5000000, Other)
    IN { <<item>>, <<again>>, <<rent>>, <<item, rent>>, <<rent, again>>,
         <<item, again>>, <<rent, item, rent>> }

\* A handler that returns without its finally block.
FinallyBlockSkipped(flags, s) == flags

\* finally { setIsConfirming(false) } (and the same call before the early return)
FinallyBlock(flags, s) == [flags EXCEPT ![s] = FALSE]

\* setStagedTransactions(transactions), setIsStagingModalOpen(true) on a parsed upload
HandleFileUpload(s) ==
    /\ sessionPc[s] = "ready"
    /\ \E batch \in statements[s] :
          stagedTransactions' = [stagedTransactions EXCEPT ![s] = batch]
    /\ errorMessage' = [errorMessage EXCEPT ![s] = NoMessage]
    /\ isStagingModalOpen' = [isStagingModalOpen EXCEPT ![s] = TRUE]
    /\ UNCHANGED <<transactionsTable, analysisResult, inFlight, sessionPc, ingested, statements,
                   isConfirming>>
    /\ UNCHANGED <<dateVars, catVars, parseVars, recordVars, keyVars, dedupeVars, analyticsVars>>

\* handleConfirmStagedTransactions up to `await insert(...)`
HandleConfirmStagedTransactions(s) ==
    /\ sessionPc[s] = "ready"
    /\ isStagingModalOpen[s]
    /\ stagedTransactions[s] # <<>>
    /\ LET existingKeySet == ExistingKeySet(analysisResult[s].transactions)
           filtered == FilterDuplicateStaged(stagedTransactions[s], existingKeySet)
       IN IF filtered.newOnes = <<>>
          THEN /\ errorMessage' =
                    [errorMessage EXCEPT ![s] =
                        [kind |-> "allDuplicates", inserted |-> 0,
                         skipped |-> Len(stagedTransactions[s])]]
               /\ isConfirming' = FinallyBlock(isConfirming, s)
               /\ UNCHANGED <<inFlight, sessionPc>>
          ELSE /\ errorMessage' = [errorMessage EXCEPT ![s] = NoMessage]
               /\ isConfirming' = [isConfirming EXCEPT ![s] = TRUE]
               /\ inFlight' =
                    [inFlight EXCEPT ![s] =
                        [batch |-> stagedTransactions[s],
                         rows |-> [k \in DOMAIN filtered.newOnes |->
                                     NormalizeWriteRow(InsertPayload(filtered.newOnes, UserId)[k])],
                         duplicateCount |-> filtered.duplicateCount]]
               /\ sessionPc' = [sessionPc EXCEPT ![s] = "inserting"]
    /\ UNCHANGED <<transactionsTable, analysisResult, stagedTransactions, ingested, statements,
                   isStagingModalOpen>>
    /\ UNCHANGED <<dateVars, catVars, parseVars, recordVars, keyVars, dedupeVars, analyticsVars>>

\* The backend stores the rows; the handler goes on: setIsStagingModalOpen(false),
\* setStagedTransactions([]).
InsertRows(s) ==
    /\ sessionPc[s] = "inserting"
    /\ Len(transactionsTable) + Len(inFlight[s].rows) <= MaxLedger
    /\ transactionsTable' = InsertInto(transactionsTable, inFlight[s].rows)
    /\ isStagingModalOpen' = [isStagingModalOpen EXCEPT ![s] = FALSE]
    /\ stagedTransactions' = [stagedTransactions EXCEPT ![s] = <<>>]
    /\ sessionPc' = [sessionPc EXCEPT ![s] = "refetching"]
    /\ UNCHANGED <<analysisResult, inFlight, errorMessage, ingested, statements, isConfirming>>
    /\ UNCHANGED <<dateVars, catVars, parseVars, recordVars, keyVars, dedupeVars, analyticsVars>>

\* The backend answers with an error: the catch branch and the finally block,
\* nothing stored.
InsertFails(s) ==
    /\ sessionPc[s] = "inserting"
    /\ errorMessage' =
          [errorMessage EXCEPT ![s] = [kind |-> "failed", inserted |-> 0, skipped |-> 0]]
    /\ inFlight' = [inFlight EXCEPT ![s] = NoRequest]
    /\ isConfirming' = FinallyBlock(isConfirming, s)
    /\ sessionPc' = [sessionPc EXCEPT ![s] = "ready"]
    /\ UNCHANGED <<transactionsTable, analysisResult, stagedTransactions, ingested, statements,
                   isStagingModalOpen>>
    /\ UNCHANGED <<dateVars, catVars, parseVars, recordVars, keyVars, dedupeVars, analyticsVars>>

\* `await refetch()`, the effect's setAnalysisResult(analyzeTransactions(transactions)),
\* and the message about skipped duplicates.
Refetch(s) ==
    /\ sessionPc[s] = "refetching"
    /\ analysisResult' =
          [analysisResult EXCEPT ![s] =
              AnalyzeTransactions(SelectTransactions(transactionsTable, UserId))]
    /\ errorMessage' =
          IF inFlight[s].duplicateCount > 0
          THEN [errorMessage EXCEPT ![s] =
                  [kind |-> "skippedSome", inserted |-> Len(inFlight[s].rows),
                   skipped |-> inFlight[s].duplicateCount]]
          ELSE errorMessage
    /\ ingested' = [ingested EXCEPT ![s] = @ \cup {inFlight[s].batch}]
    /\ inFlight' = [inFlight EXCEPT ![s] = NoRequest]
    /\ isConfirming' = FinallyBlock(isConfirming, s)
    /\ sessionPc' = [sessionPc EXCEPT ![s] = "ready"]
    /\ UNCHANGED <<transactionsTable, stagedTransactions, statements, isStagingModalOpen>>
    /\ UNCHANGED <<dateVars, catVars, parseVars, recordVars, keyVars, dedupeVars, analyticsVars>>

\* onClose of the staging modal (the header's close button stays enabled
\* while a confirmation runs): setIsStagingModalOpen(false)
CloseStaging(s) ==
    /\ isStagingModalOpen[s]
    /\ isStagingModalOpen' = [isStagingModalOpen EXCEPT ![s] = FALSE]
    /\ UNCHANGED <<transactionsTable, analysisResult, stagedTransactions, inFlight, errorMessage,
                   sessionPc, ingested, statements, isConfirming>>
    /\ UNCHANGED <<dateVars, catVars, parseVars, recordVars, keyVars, dedupeVars, analyticsVars>>

\* The transactions query runs again on its own (another session's insert is
\* picked up only this way).
Reload(s) ==
    /\ sessionPc[s] = "ready"
    /\ analysisResult' =
          [analysisResult EXCEPT ![s] =
              AnalyzeTransactions(SelectTransactions(transactionsTable, UserId))]
    /\ UNCHANGED <<transactionsTable, stagedTransactions, inFlight, errorMessage,
                   sessionPc, ingested, statements, isConfirming, isStagingModalOpen>>
    /\ UNCHANGED <<dateVars, catVars, parseVars, recordVars, keyVars, dedupeVars, analyticsVars>>

-----------------------------------------------------------------------------
(* Ingestion: properties                                                   *)

Sessions == DOMAIN sessionPc

\* C11: in a single session, once a batch has been confirmed and the ledger
\* refreshed, confirming the same batch again counts every candidate as a
\* duplicate, issues no insert and leaves the table as it is.
C11_SecondConfirmInsertsNothing ==
    [][\A s \in Sessions :
          (HandleConfirmStagedTransactions(s) /\ stagedTransactions[s] \in ingested[s])
          => /\ errorMessage'[s] = [kind |-> "allDuplicates", inserted |-> 0,
                                    skipped |-> Len(stagedTransactions[s])]
             /\ inFlight' = inFlight
             /\ sessionPc' = sessionPc
             /\ transactionsTable' = transactionsTable]_vars

C11_Witness ==
    \E s \in Sessions :
        /\ Len(stagedTransactions[s]) = 2
        /\ stagedTransactions[s] \in ingested[s]
        /\ errorMessage[s] = [kind |-> "allDuplicates", inserted |-> 0, skipped |-> 2]
        /\ sessionPc[s] = "ready"
        /\ Len(transactionsTable) = 2

RowKey(r) == MakeTransactionKey(MapRowToTransaction(r))

\* C12: the duplicate check is made against the session's own snapshot only.
\* An insert in flight holds candidates missing from that snapshot, whatever
\* the table holds by then, and the backend stores every one of them; so two
\* sessions that confirmed the same candidate before either insert completed
\* leave two records with the same key in the table.
C12_InsertIgnoresTheTable ==
    /\ [](\A s \in Sessions :
            sessionPc[s] = "inserting"
            => /\ inFlight[s].rows # <<>>
               /\ \A k \in DOMAIN inFlight[s].rows :
                     RowKey([id |-> 0] @@ inFlight[s].rows[k])
                        \notin ExistingKeySet(analysisResult[s].transactions)
               /\ Len(transactionsTable) + Len(inFlight[s].rows) <= MaxLedger
                     => ENABLED InsertRows(s))
    /\ [][\A s \in Sessions :
            (sessionPc[s] = "inserting" /\ sessionPc'[s] = "refetching")
            => /\ Len(transactionsTable') = Len(transactionsTable) + Len(inFlight[s].rows)
               /\ \A k \in DOMAIN inFlight[s].rows :
                     RowKey([id |-> 0] @@ inFlight[s].rows[k])
                        \in {RowKey(transactionsTable'[j]) :
                                j \in DOMAIN transactionsTable' \ DOMAIN transactionsTable}]_vars

\* Both sessions confirmed the same one-candidate batch on an empty snapshot,
\* both inserts went through, and the table holds the key twice.
C12_Witness ==
    /\ Sessions = {"a", "b"}
    /\ \E batch \in statements["a"] \cap statements["b"] :
          /\ ingested["a"] = {batch} /\ ingested["b"] = {batch}
          /\ Len(transactionsTable) = 2
          /\ RowKey(transactionsTable[1]) = MakeTransactionKey(batch[1])
          /\ RowKey(transactionsTable[2]) = MakeTransactionKey(batch[1])
    /\ \A s \in Sessions :
          sessionPc[s] = "ready" /\ Len(analysisResult[s].transactions) = 2

\* C27: with a single session and no other writer, starting from an empty
\* ledger, the stored records have pairwise distinct keys after every upload
\* and confirmation: two candidates of one staged batch that share a key are
\* not both inserted.
C27_LedgerKeysStayDistinct ==
    \A i, j \in DOMAIN transactionsTable :
        RowKey(transactionsTable[i]) = RowKey(transactionsTable[j]) => i = j

\* Every staged candidate of the session has the key of a loaded record.
AllDuplicates(s) ==
    \A k \in DOMAIN stagedTransactions[s] :
        \E j \in DOMAIN analysisResult[s].transactions :
            MakeTransactionKey(stagedTransactions[s][k])
              = MakeTransactionKey(analysisResult[s].transactions[j])

\* C29: once a confirmation has set isConfirming it is eventually reset, on
\* every path; the staged list is emptied and the staging modal closed by the
\* handler only together with a successful insert; when the insert fails or
\* every candidate is a duplicate, the staged list and the ledger stay as they
\* were, a message is set and isConfirming is false again.
C29_ConfirmingIsReset ==
    /\ isConfirming["a"] ~> ~isConfirming["a"]
    /\ [][\A s \in Sessions :
            /\ (stagedTransactions[s] # <<>> /\ stagedTransactions'[s] = <<>>)
               => /\ sessionPc[s] = "inserting" /\ sessionPc'[s] = "refetching"
                  /\ Len(transactionsTable') = Len(transactionsTable) + Len(inFlight[s].rows)
                  /\ ~isStagingModalOpen'[s]
            /\ (isStagingModalOpen[s] /\ ~isStagingModalOpen'[s] /\ sessionPc'[s] # sessionPc[s])
               => /\ sessionPc[s] = "inserting" /\ sessionPc'[s] = "refetching"
                  /\ Len(transactionsTable') = Len(transactionsTable) + Len(inFlight[s].rows)
                  /\ stagedTransactions'[s] = <<>>
            /\ (sessionPc[s] = "inserting" /\ sessionPc'[s] = "ready")
               => /\ stagedTransactions'[s] = stagedTransactions[s]
                  /\ transactionsTable' = transactionsTable
                  /\ errorMessage'[s].kind = "failed"
                  /\ ~isConfirming'[s]
            /\ (HandleConfirmStagedTransactions(s) /\ AllDuplicates(s))
               => /\ stagedTransactions'[s] = stagedTransactions[s]
                  /\ isStagingModalOpen'[s] = isStagingModalOpen[s]
                  /\ transactionsTable' = transactionsTable
                  /\ errorMessage'[s].kind = "allDuplicates"
                  /\ ~isConfirming'[s]
            /\ (~isConfirming[s] /\ isConfirming'[s]) => sessionPc'[s] = "inserting"]_vars

\* A batch went in, a second confirmation of new candidates was rejected by
\* the backend: the flag is down again, the candidates are still staged.
C29_Witness ==
    \E s \in Sessions :
        /\ errorMessage[s].kind = "failed"
        /\ ~isConfirming[s]
        /\ isStagingModalOpen[s]
        /\ stagedTransactions[s] # <<>>
        /\ transactionsTable # <<>>
        /\ ingested[s] # {}

-----------------------------------------------------------------------------
(* Ledger edits: handleEditTransaction, handleConfirmEdit, update          *)

\* A wrong payload: the category is the one the form submitted.
EditPayloadAsSubmitted(updatedTransaction, table) ==
    [date |-> updatedTransaction.date,
     description |-> <<updatedTransaction.description>>, Description |-> <<>>,
     amount |-> <<NumberValue(updatedTransaction.amount)>>, Amount |-> <<>>,
     category |-> <<updatedTransaction.category>>, Category |-> <<>>]

\* transactionToUpdate: { date, description, amount, category: getCategory(description) }
EditPayload(updatedTransaction, table) ==
    [date |-> updatedTransaction.date,
     description |-> <<updatedTransaction.description>>, Description |-> <<>>,
     amount |-> <<NumberValue(updatedTransaction.amount)>>, Amount |-> <<>>,
     category |-> <<GetCategory(updatedTransaction.description, table)>>, Category |-> <<>>]

\* from('transactions').update(payload).eq('id', id): the columns the payload
\* names are replaced in the rows with that id
UpdateWhere(rows, id, payload) ==
    LET column(row, c) == IF payload[c] # <<>> THEN payload[c] ELSE row[c]
    IN [k \in DOMAIN rows |->
          IF rows[k].id # id THEN rows[k]
          ELSE [rows[k] EXCEPT !.date = payload.date,
                               !.description = column(rows[k], "description"),
                               !.Description = column(rows[k], "Description"),
                               !.amount = column(rows[k], "amount"),
                               !.Amount = column(rows[k], "Amount"),
                               !.category = column(rows[k], "category"),
                               !.Category = column(rows[k], "Category")]]

\* The ledger the edits start from: two records ingested earlier.
EditTable ==
    InsertInto(<<>>,
               [k \in 1..2 |->
                   NormalizeWriteRow(
                       InsertPayload(<<Candidate(Text.day1, <<"Z","o","m"," ","o","r","d","e","r">>,
                                                 -250500, Label.food),
                                       Candidate(Text.day2, Text.rent, -5000000, Other)>>,
                                     UserId)[k])])

\* handleEditTransaction: the modal opens on a record of the list, or on a
\* record that has no id (0 stands for none).
HandleEditTransaction(s) ==
    /\ sessionPc[s] = "ready"
    /\ editPc = "closed"
    /\ \E k \in DOMAIN analysisResult[s].transactions, withId \in BOOLEAN :
          LET t == analysisResult[s].transactions[k]
          IN /\ transaction' = (IF withId THEN t ELSE [t EXCEPT !.id = 0])
             /\ formData' = transaction'
    /\ editPc' = "open"
    /\ UNCHANGED <<ledgerRow, dateVars, catVars, parseVars, keyVars, dedupeVars, ingestVars, analyticsVars>>

\* handleConfirmEdit up to `await update(...)`
HandleConfirmEdit(s) ==
    /\ sessionPc[s] = "ready"
    /\ editPc = "open"
    /\ IF formData.id = 0
       THEN UNCHANGED <<errorMessage, inFlight, sessionPc>>
       ELSE /\ errorMessage' = [errorMessage EXCEPT ![s] = NoMessage]
            /\ inFlight' =
                 [inFlight EXCEPT ![s] =
                     [id |-> formData.id,
                      values |-> NormalizeWriteRow(EditPayload(formData, ParserTable)),
                      submitted |-> formData]]
            /\ sessionPc' = [sessionPc EXCEPT ![s] = "updating"]
    /\ UNCHANGED <<transactionsTable, analysisResult, stagedTransactions, ingested, statements,
                   isConfirming, isStagingModalOpen>>
    /\ UNCHANGED <<dateVars, catVars, parseVars, recordVars, keyVars, dedupeVars, analyticsVars>>

\* The backend updates the row; the handler goes on: setIsEditModalOpen(false),
\* setEditingTransaction(null).
UpdateRow(s) ==
    /\ sessionPc[s] = "updating"
    /\ transactionsTable' = UpdateWhere(transactionsTable, inFlight[s].id, inFlight[s].values)
    /\ editPc' = "closed"
    /\ transaction' = BlankTransaction
    /\ sessionPc' = [sessionPc EXCEPT ![s] = "reloading"]
    /\ UNCHANGED <<ledgerRow, formData, analysisResult, stagedTransactions, inFlight,
                   errorMessage, ingested, statements, isConfirming, isStagingModalOpen>>
    /\ UNCHANGED <<dateVars, catVars, parseVars, keyVars, dedupeVars, analyticsVars>>

\* The backend answers with an error: the catch branch sets the message, the
\* modal stays open.
UpdateFails(s) ==
    /\ sessionPc[s] = "updating"
    /\ errorMessage' =
          [errorMessage EXCEPT ![s] = [kind |-> "updateFailed", inserted |-> 0, skipped |-> 0]]
    /\ inFlight' = [inFlight EXCEPT ![s] = NoRequest]
    /\ sessionPc' = [sessionPc EXCEPT ![s] = "ready"]
    /\ UNCHANGED <<transactionsTable, analysisResult, stagedTransactions, ingested, statements,
                   isConfirming, isStagingModalOpen>>
    /\ UNCHANGED <<dateVars, catVars, parseVars, recordVars, keyVars, dedupeVars, analyticsVars>>

\* `await refetch()` after the update
RefetchEdited(s) ==
    /\ sessionPc[s] = "reloading"
    /\ analysisResult' =
          [analysisResult EXCEPT ![s] =
              AnalyzeTransactions(SelectTransactions(transactionsTable, UserId))]
    /\ inFlight' = [inFlight EXCEPT ![s] = NoRequest]
    /\ sessionPc' = [sessionPc EXCEPT ![s] = "ready"]
    /\ UNCHANGED <<transactionsTable, stagedTransactions, errorMessage, ingested, statements,
                   isConfirming, isStagingModalOpen>>
    /\ UNCHANGED <<dateVars, catVars, parseVars, recordVars, keyVars, dedupeVars, analyticsVars>>

-----------------------------------------------------------------------------
(* Ledger edits: properties                                                *)

\* The stored record with the given id, as the ledger query reads it.
StoredRecord(rows, id) ==
    MapRowToTransaction(rows[CHOOSE k \in DOMAIN rows : rows[k].id = id])

\* C26: a confirmed edit replaces the record's date, description and amount
\* with the submitted values and sets its category to getCategory of the
\* submitted description, whatever category was submitted, and touches no
\* other record; no update is ever requested for a record without an id; a
\* failed update leaves the ledger as it was and sets an error message.
C26_EditReplacesAndRecategorizes ==
    /\ [](\A s \in Sessions : sessionPc[s] = "updating" => inFlight[s].submitted.id # 0)
    /\ [][\A s \in Sessions :
            /\ (sessionPc[s] = "updating" /\ sessionPc'[s] = "reloading")
               => LET submitted == inFlight[s].submitted
                      stored == StoredRecord(transactionsTable', submitted.id)
                  IN /\ stored.date = submitted.date
                     /\ stored.description = submitted.description
                     /\ stored.amount = submitted.amount
                     /\ stored.category = GetCategory(submitted.description, ParserTable)
                     /\ Len(transactionsTable') = Len(transactionsTable)
                     /\ \A k \in DOMAIN transactionsTable :
                           transactionsTable[k].id # submitted.id
                           => transactionsTable'[k] = transactionsTable[k]
            /\ (sessionPc[s] = "updating" /\ sessionPc'[s] = "ready")
               => /\ transactionsTable' = transactionsTable
                  /\ errorMessage'[s].kind = "updateFailed"
            /\ sessionPc[s] = sessionPc'[s] => transactionsTable' = transactionsTable]_vars

\* An edit went through that changed the description, with a category
\* submitted that is not the one stored.
C26_Witness ==
    \E s \in Sessions :
        /\ sessionPc[s] = "reloading"
        /\ inFlight[s].submitted.description = Text.rent
        /\ inFlight[s].submitted.category = Label.grocery
        /\ inFlight[s].submitted.id = 1
        /\ StoredRecord(transactionsTable, 1).description = Text.rent
        /\ StoredRecord(transactionsTable, 1).category = Other
        /\ analysisResult[s].transactions[2].category = Label.food

-----------------------------------------------------------------------------
(* Analytics: summarize, aggregateMonthly, aggregateCategories             *)

\* A wrong summary: debit amounts are added with their sign.
SummarizeSigned(transactions) ==
    LET credits == SelectSeq(transactions, LAMBDA t : t.type = "credit")
        others == SelectSeq(transactions, LAMBDA t : t.type # "credit")
    IN [totalIncome |-> SumSeq(Amounts(credits)),
        totalExpenses |-> SumSeq(Amounts(others)),
        netSavings |-> SumSeq(Amounts(credits)) - SumSeq(Amounts(others))]

\* if (t.type === 'credit') totalIncome += t.amount; else totalExpenses += Math.abs(t.amount)
Summarize(transactions) ==
    LET credits == SelectSeq(transactions, LAMBDA t : t.type = "credit")
        others == SelectSeq(transactions, LAMBDA t : t.type # "credit")
        totalIncome == SumSeq(Amounts(credits))
        totalExpenses == SumSeq([k \in DOMAIN others |-> Abs(others[k].amount)])
    IN [totalIncome |-> totalIncome, totalExpenses |-> totalExpenses,
        netSavings |-> totalIncome - totalExpenses]

\* A wrong validation: every date is taken.
MatchesAnyDate(date) == TRUE

\* /^\d{4}-\d{2}-\d{2}$/.test(date)
MatchesIsoDate(date) ==
    /\ Len(date) = 10
    /\ \A i \in {1, 2, 3, 4, 6, 7, 9, 10} : IsDigit(date[i])
    /\ date[5] = "-" /\ date[8] = "-"

\* A wrong key list: one key per record, repeats kept.
Repeated(s) == s

\* The keys of a Map filled in the order of s: each value once, at its first place.
Distinct(s) ==
    LET upTo[i \in 0..Len(s)] ==
            IF i = 0 THEN <<>>
            ELSE IF \E j \in 1..(i - 1) : s[j] = s[i] THEN upTo[i - 1]
            ELSE Append(upTo[i - 1], s[i])
    IN upTo[Len(s)]

AggregateMonthly(transactions) ==
    LET valid == SelectSeq(transactions, LAMBDA t : MatchesIsoDate(t.date))
        monthKeys == Distinct([k \in DOMAIN valid |-> SubSeq(valid[k].date, 1, 7)])
        entry(key) ==
            LET ofMonth == SelectSeq(valid, LAMBDA t : SubSeq(t.date, 1, 7) = key)
                sums == Summarize(ofMonth)
            IN [monthKey |-> key, income |-> sums.totalIncome,
                expense |-> sums.totalExpenses,
                savings |-> sums.totalIncome - sums.totalExpenses]
    IN StableSort([k \in DOMAIN monthKeys |-> entry(monthKeys[k])],
                  LAMBDA a, b : StrLess(a.monthKey, b.monthKey))

\* A wrong split: only the first label of a category counts.
FirstLabel(t) ==
    LET raw == IF t.category = <<>> THEN Other ELSE t.category
        categories == SelectSeq(Split(raw, "-"), LAMBDA c : c # <<>>)
    IN IF categories = <<>> THEN <<Other>> ELSE <<categories[1]>>

\* (t.category || 'Other').split('-').filter(Boolean), 'Other' if nothing is left
Labels(t) ==
    LET raw == IF t.category = <<>> THEN Other ELSE t.category
        categories == SelectSeq(Split(raw, "-"), LAMBDA c : c # <<>>)
    IN IF categories = <<>> THEN <<Other>> ELSE categories

\* The inner loop's visits, in order: one per record and label of it.
RECURSIVE Labelled(_)
Labelled(transactions) ==
    IF transactions = <<>> THEN <<>>
    ELSE LET t == Head(transactions)
         IN [k \in DOMAIN Labels(t) |-> [category |-> Labels(t)[k], t |-> t]]
            \o Labelled(Tail(transactions))

AggregateCategories(transactions) ==
    LET visits == Labelled(transactions)
        names == Distinct([k \in DOMAIN visits |-> visits[k].category])
        entry(c) ==
            LET ofCategory == SelectSeq(visits, LAMBDA v : v.category = c)
                sums == Summarize([k \in DOMAIN ofCategory |-> ofCategory[k].t])
            IN [category |-> c, expense |-> sums.totalExpenses, income |-> sums.totalIncome]
    IN StableSort([k \in DOMAIN names |-> entry(names[k])],
                  LAMBDA a, b : a.expense > b.expense)

MaxRecords == 3

\* The records of the analytics tests (amounts in thousandths), and records
\* with an unset or oddly hyphenated category, a date that is not
\* YYYY-MM-DD, and a type that disagrees with the amount's sign.
AnalyticsLedgers ==
    LET record(date, amount, type, cat) ==
            [date |-> date, description |-> Text.testItem, amount |-> amount,
             type |-> type, category |-> cat]
        jan5 == <<"2","0","2","5","-","0","1","-","0","5">>
        jan10 == <<"2","0","2","5","-","0","1","-","1","0">>
        feb15 == <<"2","0","2","5","-","0","2","-","1","5">>
        dec31 == <<"2","0","2","4","-","1","2","-","3","1">>
    IN SeqsUpTo({ record(jan5, 100000000, "credit", Label.atm),
                  record(jan10, -3500000, "debit", Label.grocery),
                  record(feb15, -1000000, "debit", Join(<<Label.food, Label.grocery>>, <<"-">>)),
                  record(dec31, 250500, "credit", <<>>),
                  record(Text.spacedDay1, -4, "debit", Label.food \o <<"-">>),
                  record(feb15, 0, "debit", <<"-">>),
                  record(jan10, 5000, "debit", Label.food),
                  record(jan5, -200, "credit", Label.atm) }, MaxRecords)

\* App's effect on a loaded ledger: analyzeTransactions(transactions)
AnalyzeTransactionsStep ==
    /\ analyticsPc = "input"
    /\ report' = [analysis |-> AnalyzeTransactions(ledger)] @@ report
    /\ analyticsPc' = "analyzed"
    /\ UNCHANGED <<ledger, thresholds, dateVars, catVars, parseVars, recordVars, keyVars, dedupeVars, ingestVars>>

SummarizeStep ==
    /\ analyticsPc = "analyzed"
    /\ report' = [summary |-> Summarize(ledger)] @@ report
    /\ analyticsPc' = "summarized"
    /\ UNCHANGED <<ledger, thresholds, dateVars, catVars, parseVars, recordVars, keyVars, dedupeVars, ingestVars>>

AggregateMonthlyStep ==
    /\ analyticsPc = "summarized"
    /\ report' = [monthly |-> AggregateMonthly(ledger)] @@ report
    /\ analyticsPc' = "monthly"
    /\ UNCHANGED <<ledger, thresholds, dateVars, catVars, parseVars, recordVars, keyVars, dedupeVars, ingestVars>>

AggregateCategoriesStep ==
    /\ analyticsPc = "monthly"
    /\ report' = [categories |-> AggregateCategories(ledger)] @@ report
    /\ analyticsPc' = "done"
    /\ UNCHANGED <<ledger, thresholds, dateVars, catVars, parseVars, recordVars, keyVars, dedupeVars, ingestVars>>

-----------------------------------------------------------------------------
(* Analytics: properties                                                   *)

\* The sum of f over the indices in S.
RECURSIVE Total(_, _)
Total(f, S) ==
    IF S = {} THEN 0
    ELSE LET x == CHOOSE x \in S : TRUE IN f[x] + Total(f, S \ {x})

Credits == {k \in DOMAIN ledger : ledger[k].type = "credit"}
Debits == {k \in DOMAIN ledger : ledger[k].type = "debit"}
Magnitudes == [k \in DOMAIN ledger |-> Abs(ledger[k].amount)]

\* C13: on a ledger whose records all have type credit exactly when the amount
\* is at least zero, summarize and analyzeTransactions both return the sum of
\* the credit amounts, the sum of the debit magnitudes and their difference.
C13_SummariesAgree ==
    (/\ analyticsPc \in {"summarized", "monthly", "done"}
     /\ \A k \in DOMAIN ledger : TypeFollowsSign(ledger[k]))
    => /\ report.summary.totalIncome = Total(Amounts(ledger), Credits)
       /\ report.summary.totalExpenses = Total(Magnitudes, Debits)
       /\ report.summary.netSavings =
            Total(Amounts(ledger), Credits) - Total(Magnitudes, Debits)
       /\ report.analysis.summary = report.summary

C13_Witness ==
    /\ analyticsPc = "done"
    /\ \A k \in DOMAIN ledger : TypeFollowsSign(ledger[k])
    /\ Cardinality(Credits) = 1 /\ Cardinality(Debits) = 2
    /\ report.summary.totalExpenses = 4500000
    /\ report.analysis.summary.netSavings = 95500000

Dated == {k \in DOMAIN ledger : MatchesIsoDate(ledger[k].date)}
MonthOf(k) == SubSeq(ledger[k].date, 1, 7)

\* C14: aggregateMonthly has one entry for each YYYY-MM among the records
\* dated YYYY-MM-DD and none for the others; an entry holds the month's credit
\* amounts as income, its debit magnitudes as expense and their difference as
\* savings; the entries ascend strictly by month.
C14_OneEntryPerMonth ==
    analyticsPc \in {"monthly", "done"}
    => LET monthly == report.monthly
       IN /\ Len(monthly) = Cardinality({MonthOf(k) : k \in Dated})
          /\ {monthly[i].monthKey : i \in DOMAIN monthly} = {MonthOf(k) : k \in Dated}
          /\ \A i \in DOMAIN monthly :
                LET ofMonth == {k \in Dated : MonthOf(k) = monthly[i].monthKey}
                IN /\ monthly[i].income = Total(Amounts(ledger), ofMonth \cap Credits)
                   /\ monthly[i].expense = Total(Magnitudes, ofMonth \cap Debits)
                   /\ monthly[i].savings = monthly[i].income - monthly[i].expense
          /\ \A i, j \in DOMAIN monthly :
                i < j => StrLess(monthly[i].monthKey, monthly[j].monthKey)

C14_Witness ==
    /\ analyticsPc = "done"
    /\ Len(ledger) = 3
    /\ Cardinality(Dated) = 2
    /\ Len(report.monthly) = 1
    /\ report.monthly[1].income > 0 /\ report.monthly[1].expense > 0

\* The records whose date is four digits, '-', two digits, '-', two digits.
Canonical ==
    {k \in DOMAIN ledger :
        /\ Len(ledger[k].date) = 10
        /\ \A i \in 1..10 :
              IF i \in {5, 8} THEN ledger[k].date[i] = "-"
              ELSE ledger[k].date[i] \in Range(DigitChars)}

\* The sum of a field over the entries of aggregateMonthly.
OverMonths(field) ==
    Total([i \in DOMAIN report.monthly |-> report.monthly[i][field]], DOMAIN report.monthly)

\* C30: the incomes, expenses and savings of aggregateMonthly's entries add
\* up to the credit amounts, the other records' magnitudes and their
\* difference over the records dated YYYY-MM-DD, while summarize's totals are
\* those over all records: the two agree on a ledger whose dates are all
\* canonical, and a record dated otherwise is in the totals and in no month.
C30_MonthsAddUpToTheSummary ==
    analyticsPc \in {"monthly", "done"}
    => LET income(S) == Total(Amounts(ledger), S \cap Credits)
           expense(S) == Total(Magnitudes, S \ Credits)
           all == DOMAIN ledger
       IN /\ OverMonths("income") = income(Canonical)
          /\ OverMonths("expense") = expense(Canonical)
          /\ OverMonths("savings") = income(Canonical) - expense(Canonical)
          /\ report.summary.totalIncome = income(all)
          /\ report.summary.totalExpenses = expense(all)
          /\ report.summary.netSavings = income(all) - expense(all)
          /\ Canonical = all
             => /\ OverMonths("income") = report.summary.totalIncome
                /\ OverMonths("expense") = report.summary.totalExpenses
                /\ OverMonths("savings") = report.summary.netSavings

\* Three records dated YYYY-MM-DD in two months, with income and expenses.
C30_Witness ==
    /\ analyticsPc = "done"
    /\ Len(ledger) = 3
    /\ Canonical = DOMAIN ledger
    /\ Len(report.monthly) = 2
    /\ OverMonths("income") = report.summary.totalIncome
    /\ OverMonths("income") > 0
    /\ OverMonths("expense") > 0

\* How often label c is among the pieces of record k.
Times(pieces, c) == Cardinality({i \in DOMAIN pieces : pieces[i] = c})

CategoriesFollow(PiecesOf(_)) ==
    LET categories == report.categories
        names == UNION {Range(PiecesOf(ledger[k])) : k \in DOMAIN ledger}
        weighted(values, c) ==
            [k \in DOMAIN ledger |-> Times(PiecesOf(ledger[k]), c) * values[k]]
    IN /\ Len(categories) = Cardinality(names)
       /\ {categories[i].category : i \in DOMAIN categories} = names
       /\ \A i \in DOMAIN categories :
             /\ categories[i].income =
                  Total(weighted(Amounts(ledger), categories[i].category), Credits)
             /\ categories[i].expense =
                  Total(weighted(Magnitudes, categories[i].category), Debits)

\* A category cut at every '-', 'Other' standing for an empty category.
PiecesAsWritten(t) == IF t.category = <<>> THEN <<Other>> ELSE Split(t.category, "-")

\* The non-empty pieces, 'Other' standing for a category that has none.
NonEmptyPieces(t) ==
    LET kept == SelectSeq(PiecesAsWritten(t), LAMBDA c : c # <<>>)
    IN IF kept = <<>> THEN <<Other>> ELSE kept

\* C15 as stated: one entry per label obtained by cutting every category at
\* '-' ('Other' for an empty category), each record adding its amount to the
\* entry of each of its labels.
C15_OneEntryPerPiece ==
    analyticsPc = "done" => CategoriesFollow(PiecesAsWritten)

\* C15: aggregateCategories has one entry per label, the labels of a record
\* being the non-empty pieces of its category cut at '-', or 'Other' when
\* there is none; a record adds its amount (income if credit, magnitude as
\* expense if debit) to the entry of each of its labels, once per occurrence.
C15_OneEntryPerLabel ==
    analyticsPc = "done" => CategoriesFollow(NonEmptyPieces)

C15_Witness ==
    /\ analyticsPc = "done"
    /\ \E k \in DOMAIN ledger : Len(NonEmptyPieces(ledger[k])) = 2
    /\ \E k \in DOMAIN ledger : NonEmptyPieces(ledger[k]) # PiecesAsWritten(ledger[k])
    /\ \E i \in DOMAIN report.categories :
          /\ report.categories[i].category = Label.grocery
          /\ report.categories[i].expense = 4500000

-----------------------------------------------------------------------------
(* Analytics: detectRecurring                                              *)

\* toLowerCase, /[^a-z0-9\s]/g -> ' ', /\s+/g -> ' ', trim
NormalizeDescription(desc) ==
    LET lower == ToLowerCase(desc)
        plain == [i \in DOMAIN lower |->
                    IF IsLower(lower[i]) \/ IsDigit(lower[i]) THEN lower[i] ELSE " "]
        single[i \in 0..Len(plain)] ==
            IF i = 0 THEN <<>>
            ELSE IF plain[i] = " " /\ i > 1 /\ plain[i - 1] = " " THEN single[i - 1]
            ELSE Append(single[i - 1], plain[i])
    IN Trim(single[Len(plain)])

\* new Date(date).getTime() / 86400000 for a date written YYYY-MM-DD (read as
\* UTC midnight); nan for a string that is not a date.  Ledger dates are
\* written by formatDate, so they are real calendar days.
DayNumber(date) ==
    IF MatchesIsoDate(date)
    THEN LET y == ParseInt(SubSeq(date, 1, 4))
             m == ParseInt(SubSeq(date, 6, 7))
             d == ParseInt(SubSeq(date, 9, 10))
         IN IF m \in 1..12 /\ d \in 1..DaysInMonth(y, m)
            THEN [nan |-> FALSE, v |-> DaysFromCivil(y, m, d)]
            ELSE [nan |-> TRUE, v |-> 0]
    ELSE [nan |-> TRUE, v |-> 0]

\* The diffs pushed by the loop: those that are numbers above zero.
Intervals(list) ==
    LET diff(i) ==
            LET prev == DayNumber(list[i].date)
                curr == DayNumber(list[i + 1].date)
            IN [nan |-> prev.nan \/ curr.nan, v |-> curr.v - prev.v]
        kept == SelectSeq([i \in 1..(Len(list) - 1) |-> diff(i)],
                          LAMBDA x : ~x.nan /\ x.v > 0)
    IN [i \in DOMAIN kept |-> kept[i].v]

\* A wrong test: a coefficient of variation of exactly 0.5 passes too.
IsRegularInclusive(intervals) ==
    LET n == Len(intervals)
        sum == SumSeq(intervals)
        squares == SumSeq([i \in DOMAIN intervals |-> intervals[i] * intervals[i]])
    IN 4 * (n * squares - sum * sum) <= sum * sum

\* cov < 0.5, where cov = std / avg over the intervals (all above zero):
\* variance / avg^2 = (n * squares - sum^2) / sum^2, compared with 1/4.
IsRegular(intervals) ==
    LET n == Len(intervals)
        sum == SumSeq(intervals)
        squares == SumSeq([i \in DOMAIN intervals |-> intervals[i] * intervals[i]])
    IN 4 * (n * squares - sum * sum) < sum * sum

\* Math.round(avg * 10) / 10, in tenths of a day
AvgIntervalTenths(intervals) ==
    (20 * SumSeq(intervals) + Len(intervals)) \div (2 * Len(intervals))

DetectRecurring(transactions) ==
    LET norms == [k \in DOMAIN transactions |-> NormalizeDescription(transactions[k].description)]
        groupKeys == Distinct(norms)
        group(key) ==
            StableSort(SelectSeq(transactions,
                                 LAMBDA t : NormalizeDescription(t.description) = key),
                       LAMBDA a, b : StrLess(a.date, b.date))
        isPattern(key) ==
            /\ Len(group(key)) >= 3
            /\ Intervals(group(key)) # <<>>
            /\ IsRegular(Intervals(group(key)))
        found == SelectSeq(groupKeys, isPattern)
    IN [patterns |->
            [k \in DOMAIN found |->
                LET list == group(found[k])
                IN [key |-> found[k], count |-> Len(list),
                    avgIntervalTenths |-> AvgIntervalTenths(Intervals(list)),
                    lastDate |-> list[Len(list)].date]],
        recurringIds |->
            UNION {{t.id[1] : t \in {x \in Range(group(found[k])) : x.id # <<>>}} :
                     k \in DOMAIN found}]

MaxOccurrences == 3

\* Ledgers of up to MaxOccurrences records: three descriptions, two of them
\* with one normal form, on four days of January 2025.
RecurringLedgers ==
    LET day(d) == <<"2","0","2","5","-","0","1","-","0">> \o NatToStr(d)
        descriptions == {Text.rent, <<" ","R","E","N","T",".","\t","#">>, Text.testItem}
        records == {[date |-> day(d), description |-> n, amount |-> -5000000,
                     type |-> "debit", category |-> Other] :
                        d \in {1, 2, 3, 6}, n \in descriptions}
        numbered(list) == [k \in DOMAIN list |-> [id |-> <<k>>] @@ list[k]]
    IN {numbered(list) : list \in SeqsUpTo(records, MaxOccurrences)}

DetectRecurringStep ==
    /\ analyticsPc = "input"
    /\ report' = [recurring |-> DetectRecurring(ledger)]
    /\ analyticsPc' = "done"
    /\ UNCHANGED <<ledger, thresholds, dateVars, catVars, parseVars, recordVars, keyVars, dedupeVars, ingestVars>>

-----------------------------------------------------------------------------
(* detectRecurring: properties                                             *)

Members(key) == {k \in DOMAIN ledger : NormalizeDescription(ledger[k].description) = key}

\* The days on which the members of a group fall.
Days(key) == {DayNumber(ledger[k].date).v : k \in Members(key)}

\* The gaps above zero between successive members: the steps between
\* neighbouring days of the group.
Gaps(key) ==
    LET days == Days(key)
        next(d) == CHOOSE e \in days : e > d /\ \A f \in days : f > d => e <= f
    IN [d \in days \ {CHOOSE e \in days : \A f \in days : f <= e} |-> next(d) - d]

\* std / mean < 0.5 over the gaps, as 4 * variance < mean^2 in whole numbers.
Steady(key) ==
    LET gaps == Gaps(key)
        n == Cardinality(DOMAIN gaps)
        sum == Total(gaps, DOMAIN gaps)
        squares == Total([d \in DOMAIN gaps |-> gaps[d] * gaps[d]], DOMAIN gaps)
    IN 4 * (n * squares - sum * sum) < sum * sum

Qualifies(key) ==
    /\ Cardinality(Members(key)) >= 3
    /\ Cardinality(Days(key)) >= 2
    /\ Steady(key)

\* C16: detectRecurring returns one pattern for each group of records with one
\* normalized description that has at least 3 members, a gap above zero
\* between successive members, and gaps whose standard deviation is less than
\* half their mean; the pattern's count is the group's size and its lastDate
\* the group's latest date.  No other group has a pattern.
C16_OnePatternPerSteadyGroup ==
    analyticsPc = "done"
    => LET patterns == report.recurring.patterns
           groupKeys == {NormalizeDescription(ledger[k].description) : k \in DOMAIN ledger}
       IN /\ \A i, j \in DOMAIN patterns : patterns[i].key = patterns[j].key => i = j
          /\ {patterns[i].key : i \in DOMAIN patterns} = {key \in groupKeys : Qualifies(key)}
          /\ \A i \in DOMAIN patterns :
                /\ patterns[i].count = Cardinality(Members(patterns[i].key))
                /\ \E k \in Members(patterns[i].key) :
                      /\ ledger[k].date = patterns[i].lastDate
                      /\ \A d \in Days(patterns[i].key) : d <= DayNumber(ledger[k].date).v

C16_Witness ==
    /\ analyticsPc = "done"
    /\ Len(ledger) = 3
    /\ Cardinality({ledger[k].description : k \in DOMAIN ledger}) = 2
    /\ Len(report.recurring.patterns) = 1
    /\ report.recurring.patterns[1].count = 3
    /\ report.recurring.patterns[1].avgIntervalTenths = 25
    /\ report.recurring.recurringIds = {1, 2, 3}

-----------------------------------------------------------------------------
(* Analytics: detectAnomalies                                              *)

\* A z-score (value - mean) / std over n values with the given sum and sum
\* of squares is kept exactly, as num / sqrt(radicand):
\*   num = n * value - sum,  radicand = n * squares - sum^2  (= n^2 * variance).

\* A wrong minimum: three values are enough for statistics.
ComputeStatsFromThree(values) ==
    LET n == Len(values)
        sum == SumSeq(values)
        squares == SumSeq([i \in DOMAIN values |-> values[i] * values[i]])
    IN IF n < 3 \/ n * squares - sum * sum = 0 THEN <<>>
       ELSE <<[n |-> n, sum |-> sum, radicand |-> n * squares - sum * sum]>>

\* null (<<>>) below 5 values or when std === 0, else the mean and the std
ComputeStats(values) ==
    LET n == Len(values)
        sum == SumSeq(values)
        squares == SumSeq([i \in DOMAIN values |-> values[i] * values[i]])
    IN IF n < 5 \/ n * squares - sum * sum = 0 THEN <<>>
       ELSE <<[n |-> n, sum |-> sum, radicand |-> n * squares - sum * sum]>>

\* A wrong comparison: a z-score equal to the threshold does not reach it.
ZAbove(z, tenths) ==
    LET a == 10 * z.num
        bound == tenths * tenths * z.radicand
    IN IF tenths >= 0 THEN a > 0 /\ a * a > bound ELSE a >= 0 \/ a * a < bound

\* z >= tenths / 10, that is 10 * num >= tenths * sqrt(radicand)
ZAtLeast(z, tenths) ==
    LET a == 10 * z.num
        bound == tenths * tenths * z.radicand
    IN IF tenths >= 0 THEN a >= 0 /\ a * a >= bound ELSE a >= 0 \/ a * a <= bound

\* y - x < 0 for two z-scores: x is the larger one
ZGreater(x, y) ==
    IF x.num >= 0 /\ y.num < 0 THEN TRUE
    ELSE IF x.num < 0 /\ y.num >= 0 THEN FALSE
    ELSE IF x.num >= 0 THEN x.num * x.num * y.radicand > y.num * y.num * x.radicand
    ELSE x.num * x.num * y.radicand < y.num * y.num * x.radicand

DetectAnomalies(transactions, zThresholdModerate, zThresholdSevere) ==
    LET expenses == SelectSeq(transactions, LAMBDA t : t.amount < 0)
        categoryValues(cat) ==
            LET own == SelectSeq(expenses, LAMBDA t : t.category = cat)
            IN [k \in DOMAIN own |-> Abs(own[k].amount)]
        categoryStats(cat) == ComputeStats(categoryValues(cat))
        zOf(t) ==
            LET stats == categoryStats(t.category)[1]
            IN [num |-> stats.n * Abs(t.amount) - stats.sum, radicand |-> stats.radicand]
        flagged ==
            SelectSeq(expenses,
                      LAMBDA t : /\ categoryStats(t.category) # <<>>
                                 /\ ZAtLeast(zOf(t), zThresholdModerate))
        anomalies ==
            [k \in DOMAIN flagged |->
                [transactionId |-> flagged[k].id,
                 date |-> flagged[k].date,
                 description |-> flagged[k].description,
                 amount |-> flagged[k].amount,
                 category |-> flagged[k].category,
                 zScore |-> zOf(flagged[k]),
                 severity |-> IF ZAtLeast(zOf(flagged[k]), zThresholdSevere)
                              THEN "severe" ELSE "moderate"]]
    IN StableSort(anomalies, LAMBDA a, b : ZGreater(a.zScore, b.zScore))

MaxExtras == 3

\* Ledgers: four equal expenses of one category, then up to MaxExtras more
\* records: expenses of that category (equal, smaller, larger), a credit of
\* it, and two expenses of a second category.
AnomalyLedgers ==
    LET record(cat, amount) ==
            [date |-> Text.day1, description |-> Text.testItem, amount |-> amount,
             type |-> IF amount >= 0 THEN "credit" ELSE "debit", category |-> cat]
        rest == [k \in 1..4 |-> record(Label.food, -3)]
        extras == { record(Label.food, -3), record(Label.food, -9), record(Label.food, -1),
                    record(Label.food, -6),
                    record(Label.food, 5), record(Label.atm, -1), record(Label.atm, -9) }
        numbered(list) == [k \in DOMAIN list |-> [id |-> <<k>>] @@ list[k]]
    IN {numbered(rest \o more) : more \in SeqsUpTo(extras, MaxExtras)}

\* zThresholdModerate and zThresholdSevere in tenths: the defaults and others.
ThresholdChoices ==
    { [moderate |-> 20, severe |-> 30], [moderate |-> 10, severe |-> 15],
      [moderate |-> 15, severe |-> 10], [moderate |-> 0, severe |-> 18] }

DetectAnomaliesStep ==
    /\ analyticsPc = "input"
    /\ report' = [anomalies |-> DetectAnomalies(ledger, thresholds.moderate, thresholds.severe)]
    /\ analyticsPc' = "done"
    /\ UNCHANGED <<ledger, thresholds, dateVars, catVars, parseVars, recordVars, keyVars, dedupeVars, ingestVars>>

-----------------------------------------------------------------------------
(* detectAnomalies: properties                                             *)

\* The expense observations of a category: the records with a negative amount.
ExpensesOf(cat) == {k \in DOMAIN ledger : ledger[k].amount < 0 /\ ledger[k].category = cat}

Eligible(cat) ==
    /\ Cardinality(ExpensesOf(cat)) >= 5
    /\ \E i, j \in ExpensesOf(cat) : ledger[i].amount # ledger[j].amount

\* The record an anomaly reports.
Reported(r) == CHOOSE k \in DOMAIN ledger : ledger[k].id = r.transactionId

\* C17: every anomaly reports an expense (a record with a negative amount) of
\* a category that has at least 5 expenses, not all of one amount; nothing is
\* reported for a credit, for a category with fewer than 5 expenses, or for a
\* category whose expenses are all equal.
C17_OnlyExpensesOfEligibleCategories ==
    analyticsPc = "done"
    => \A i \in DOMAIN report.anomalies :
          LET r == report.anomalies[i]
          IN /\ \E k \in DOMAIN ledger : ledger[k].id = r.transactionId
             /\ r.amount = ledger[Reported(r)].amount
             /\ r.category = ledger[Reported(r)].category
             /\ r.amount < 0
             /\ Eligible(r.category)

C17_Witness ==
    /\ analyticsPc = "done"
    /\ Len(report.anomalies) = 1
    /\ \E k \in DOMAIN ledger : ledger[k].amount > 0 /\ ledger[k].category = Label.food
    /\ Cardinality(ExpensesOf(Label.atm)) = 1
    /\ thresholds = [moderate |-> 10, severe |-> 15]

\* z of record k within its category, from sums over the category's expenses.
ZScore(k) ==
    LET own == ExpensesOf(ledger[k].category)
        n == Cardinality(own)
        sum == Total(Magnitudes, own)
        squares == Total([i \in DOMAIN ledger |-> Magnitudes[i] * Magnitudes[i]], own)
    IN [num |-> n * Magnitudes[k] - sum, radicand |-> n * squares - sum * sum]

\* z >= tenths / 10 for z = num / sqrt(radicand)
Reaches(z, tenths) ==
    IF z.num < 0
    THEN tenths < 0 /\ tenths * tenths * z.radicand >= 100 * z.num * z.num
    ELSE tenths <= 0 \/ 100 * z.num * z.num >= tenths * tenths * z.radicand

\* C18: the anomalies are the expenses of eligible categories whose z is at
\* least the moderate threshold, each once; one is 'severe' exactly when its z
\* is at least the severe threshold, 'moderate' otherwise; z does not
\* increase along the result.
C18_ExactlyTheHighScores ==
    analyticsPc = "done"
    => LET anomalies == report.anomalies
           expected ==
              {k \in DOMAIN ledger :
                  /\ ledger[k].amount < 0
                  /\ Eligible(ledger[k].category)
                  /\ Reaches(ZScore(k), thresholds.moderate)}
       IN /\ Len(anomalies) = Cardinality(expected)
          /\ {anomalies[i].transactionId : i \in DOMAIN anomalies}
                = {ledger[k].id : k \in expected}
          /\ \A i \in DOMAIN anomalies :
                LET k == Reported(anomalies[i])
                IN /\ anomalies[i].zScore = ZScore(k)
                   /\ anomalies[i].severity \in {"severe", "moderate"}
                   /\ anomalies[i].severity = "severe"
                         <=> Reaches(ZScore(k), thresholds.severe)
          /\ \A i, j \in DOMAIN anomalies :
                i < j => ~ZGreater(anomalies[j].zScore, anomalies[i].zScore)

C18_Witness ==
    /\ analyticsPc = "done"
    /\ Len(report.anomalies) = 2
    /\ report.anomalies[1].severity = "severe"
    /\ report.anomalies[2].severity = "moderate"
    /\ ZGreater(report.anomalies[1].zScore, report.anomalies[2].zScore)
    /\ report.anomalies[1].transactionId[1] > report.anomalies[2].transactionId[1]

\* In a category of exactly 5 expenses no z-score is above 2 (the largest,
\* sqrt(5 - 1), is that of a value apart from four equal ones), so with the
\* default thresholds nothing of such a category is 'severe'.
FiveExpensesNeverSevere ==
    analyticsPc = "done"
    => /\ \A k \in DOMAIN ledger :
             (ledger[k].amount < 0 /\ Cardinality(ExpensesOf(ledger[k].category)) = 5
                /\ Eligible(ledger[k].category))
             => ~Reaches(ZScore(k), 21)
       /\ \A i \in DOMAIN report.anomalies :
             (thresholds = [moderate |-> 20, severe |-> 30]
                /\ Cardinality(ExpensesOf(report.anomalies[i].category)) = 5)
             => report.anomalies[i].severity = "moderate"

-----------------------------------------------------------------------------
(* Analytics: buildForecast                                                *)

\* forecast.ts's own aggregateMonthly: the key is date.slice(0, 7) of every
\* record, income is what is at least zero, the rest is expense.
ForecastMonthly(transactions) ==
    LET monthOf(t) == SubSeq(t.date, 1, IF Len(t.date) < 7 THEN Len(t.date) ELSE 7)
        months == Distinct([k \in DOMAIN transactions |-> monthOf(transactions[k])])
        entry(month) ==
            LET own == SelectSeq(transactions, LAMBDA t : monthOf(t) = month)
                income == SumSeq(Amounts(SelectSeq(own, LAMBDA t : t.amount >= 0)))
                expense == SumSeq([k \in DOMAIN SelectSeq(own, LAMBDA t : t.amount < 0) |->
                                      Abs(SelectSeq(own, LAMBDA t : t.amount < 0)[k].amount)])
            IN [month |-> month, income |-> income, expense |-> expense,
                savings |-> income - expense]
    IN StableSort([k \in DOMAIN months |-> entry(months[k])],
                  LAMBDA a, b : StrLess(a.month, b.month))

\* movingAverage taking the leading window instead of the trailing one
MovingAverageLeading(values, window) ==
    LET to == IF window <= 0 \/ window >= Len(values) THEN Len(values) ELSE window
        slice == SubSeq(values, 1, to)
    IN IF values = <<>> \/ slice = <<>> THEN <<>>
       ELSE <<[num |-> SumSeq(slice), den |-> Len(slice)]>>

\* values.slice(-window) averaged, as a fraction; <<>> is null.  slice(-0) is
\* the whole array.
MovingAverage(values, window) ==
    LET from == IF window <= 0 THEN 1 - window
                ELSE IF window >= Len(values) THEN 1 ELSE Len(values) - window + 1
        slice == SubSeq(values, from, Len(values))
    IN IF values = <<>> \/ slice = <<>> THEN <<>>
       ELSE <<[num |-> SumSeq(slice), den |-> Len(slice)]>>

\* /\d{4}-\d{2}/.test(s): the pattern is found somewhere in s
MatchesMonthKey(s) ==
    \E i \in 1..(Len(s) - 6) :
        /\ \A j \in {i, i + 1, i + 2, i + 3, i + 5, i + 6} : IsDigit(s[j])
        /\ s[i + 4] = "-"

\* parseInt(s, 10): the leading digits of s (a month key that matched starts
\* with digits in both parts)
LeadingInt(s) == ParseInt(DigitPrefix(s))

EmptyForecast == [points |-> <<>>, nextMonth |-> <<>>]

\* `moving-average-${window}`
MethodName(window) ==
    <<"m","o","v","i","n","g","-","a","v","e","r","a","g","e","-">> \o NatToStr(window)

BuildForecast(transactions, window) ==
    LET monthly == ForecastMonthly(transactions)
        projected(values) ==
            LET average == MovingAverage(values, window)
            IN IF average = <<>> THEN [num |-> 0, den |-> 1] ELSE average[1]
        projectedIncome == projected([k \in DOMAIN monthly |-> monthly[k].income])
        projectedExpense == projected([k \in DOMAIN monthly |-> monthly[k].expense])
        lastMonth == monthly[Len(monthly)].month
        parts == Split(lastMonth, "-")
        year == LeadingInt(parts[1])
        month == LeadingInt(parts[2])
        nextDate ==
            IF month = 12 THEN NatToStr(year + 1) \o <<"-", "0", "1">>
            ELSE NatToStr(year) \o <<"-">> \o PadStart(NatToStr(month + 1), 2)
        forecastPoint ==
            [month |-> nextDate,
             projectedIncome |-> projectedIncome,
             projectedExpense |-> projectedExpense,
             projectedSavings |->
                [num |-> projectedIncome.num * projectedExpense.den
                            - projectedExpense.num * projectedIncome.den,
                 den |-> projectedIncome.den * projectedExpense.den],
             method |-> MethodName(window)]
    IN IF monthly = <<>> THEN EmptyForecast
       ELSE IF lastMonth = <<>> \/ ~MatchesMonthKey(lastMonth) THEN EmptyForecast
       ELSE [points |-> <<forecastPoint>>, nextMonth |-> <<forecastPoint>>]

\* Ledgers of up to MaxRecords records dated in January and December, in a
\* month 13 and a month 00, in another notation, or not at all.
ForecastLedgers ==
    LET dates == { <<"2","0","2","5","-","0","1","-","0","5">>,
                   <<"2","0","2","5","-","1","2","-","3","1">>,
                   <<"2","0","2","5","-","1","3","-","0","1">>,
                   <<"2","0","2","5","-","0","0","-","1","0">>,
                   <<"3","1","/","1","2","/","2","0","2","5">>,
                   <<>> }
    IN SeqsUpTo({[date |-> d, description |-> Text.rent, amount |-> a,
                  type |-> IF a >= 0 THEN "credit" ELSE "debit", category |-> Other] :
                    d \in dates, a \in {100000, -3500}}, MaxRecords)

\* The windows buildForecast is called with; 3 is the default.
Windows == {1, 2, 3}

BuildForecastStep ==
    /\ analyticsPc = "input"
    /\ \E window \in Windows :
          report' = [window |-> window, forecast |-> BuildForecast(ledger, window)]
    /\ analyticsPc' = "done"
    /\ UNCHANGED <<ledger, thresholds, dateVars, catVars, parseVars, recordVars, keyVars, dedupeVars, ingestVars>>

-----------------------------------------------------------------------------
(* buildForecast: properties                                               *)

MonthKeys ==
    {SubSeq(ledger[k].date, 1, IF Len(ledger[k].date) < 7 THEN Len(ledger[k].date) ELSE 7) :
        k \in DOMAIN ledger}

LatestMonth == CHOOSE m \in MonthKeys : \A other \in MonthKeys : ~StrLess(m, other)

\* Four digits, a hyphen, two digits.
WellFormedMonth(m) ==
    /\ Len(m) = 7
    /\ \A i \in {1, 2, 3, 4, 6, 7} : IsDigit(m[i])
    /\ m[5] = "-"

\* C20: buildForecast returns the empty forecast when the ledger has no month
\* or its latest month key is not a well-formed YYYY-MM; otherwise it returns
\* one point, for YYYY-(MM+1) when MM is 01..11 and (YYYY+1)-01 when MM is 12,
\* so that the point's month part is always in 01..12.
C20_NextCalendarMonth ==
    analyticsPc = "done"
    => IF ledger = <<>> \/ ~WellFormedMonth(LatestMonth)
       THEN report.forecast = EmptyForecast
       ELSE LET year == ParseInt(SubSeq(LatestMonth, 1, 4))
                month == ParseInt(SubSeq(LatestMonth, 6, 7))
                points == report.forecast.points
            IN /\ Len(points) = 1
               /\ report.forecast.nextMonth = <<points[1]>>
               /\ month \in 1..11 =>
                     points[1].month = PadStart(NatToStr(year), 4) \o <<"-">>
                                          \o PadStart(NatToStr(month + 1), 2)
               /\ month = 12 =>
                     points[1].month = PadStart(NatToStr(year + 1), 4) \o <<"-", "0", "1">>
               /\ Len(points[1].month) = 7
               /\ ParseInt(SubSeq(points[1].month, 6, 7)) \in 1..12

\* The month keys in ascending order.
ObservedMonths ==
    LET RECURSIVE Ordered(_)
        Ordered(S) ==
            IF S = {} THEN <<>>
            ELSE LET least == CHOOSE m \in S : \A other \in S : ~StrLess(other, m)
                 IN <<least>> \o Ordered(S \ {least})
    IN Ordered(MonthKeys)

KeyOf(k) ==
    SubSeq(ledger[k].date, 1, IF Len(ledger[k].date) < 7 THEN Len(ledger[k].date) ELSE 7)

\* What came in and what went out in month m, by the sign of the amount.
IncomeOf(m) ==
    Total([k \in DOMAIN ledger |-> ledger[k].amount],
          {k \in DOMAIN ledger : KeyOf(k) = m /\ ledger[k].amount >= 0})

ExpenseOf(m) ==
    Total([k \in DOMAIN ledger |-> -ledger[k].amount],
          {k \in DOMAIN ledger : KeyOf(k) = m /\ ledger[k].amount < 0})

\* The months the projection rests on: the last min(w, n) of the n observed.
Trailing(w) ==
    LET n == Len(ObservedMonths)
    IN {ObservedMonths[i] : i \in ((IF w < n THEN n - w ELSE 0) + 1)..n}

\* The fraction p is the unweighted mean of f over the months in S.
IsMeanOver(p, f(_), S) ==
    LET sum == Total([m \in S |-> f(m)], S)
    IN p.den > 0 /\ p.num * Cardinality(S) = sum * p.den

\* C21: for every window w >= 1 and every ledger with at least one observed
\* month, the projected income and the projected expense of the forecast point
\* are the unweighted means of the income and of the expense of the last
\* min(w, n) observed months, the projected savings are their difference, and
\* the method is 'moving-average-' followed by w.
C21_TrailingMeans ==
    /\ (analyticsPc = "done" /\ ledger # <<>> /\ WellFormedMonth(LatestMonth))
       => report.forecast.points # <<>>
    /\ (analyticsPc = "done" /\ report.forecast.points # <<>>)
       => LET point == report.forecast.points[1]
              w == report.window
              months == Trailing(w)
          IN /\ Cardinality(months) = IF w < Len(ObservedMonths) THEN w ELSE Len(ObservedMonths)
             /\ IsMeanOver(point.projectedIncome, IncomeOf, months)
             /\ IsMeanOver(point.projectedExpense, ExpenseOf, months)
             /\ point.projectedSavings.den > 0
             /\ point.projectedSavings.num * point.projectedIncome.den * point.projectedExpense.den
                   = (point.projectedIncome.num * point.projectedExpense.den
                        - point.projectedExpense.num * point.projectedIncome.den)
                     * point.projectedSavings.den
             /\ point.method = <<"m","o","v","i","n","g","-","a","v","e","r","a","g","e","-">>
                                  \o <<DigitChars[w + 1]>>

\* Three observed months with different incomes, projected from fewer of them.
C21_Witness ==
    /\ analyticsPc = "done"
    /\ report.forecast.points # <<>>
    /\ Len(ObservedMonths) = 3
    /\ report.window = 2
    /\ IncomeOf(ObservedMonths[1]) # IncomeOf(ObservedMonths[3])
    /\ ExpenseOf(ObservedMonths[1]) # ExpenseOf(ObservedMonths[2])

\* C24: the months buildForecast averages over are those aggregateMonthly
\* returns for the same ledger: the same month keys in the same order, with
\* the same income and the same expense in each.
C24_SameGroupingAsAggregateMonthly ==
    analyticsPc = "done"
    => LET own == ForecastMonthly(ledger)
           shared == AggregateMonthly(ledger)
       IN /\ Len(own) = Len(shared)
          /\ \A k \in DOMAIN own :
                /\ own[k].month = shared[k].monthKey
                /\ own[k].income = shared[k].income
                /\ own[k].expense = shared[k].expense

-----------------------------------------------------------------------------
(* An analysis pass over a working array                                   *)

\* The array after a loop that also rewrites each description to its
\* normalized form.
AnnotateNormalized(transactions, recurringIds) ==
    [k \in DOMAIN transactions |->
        LET t == transactions[k]
        IN IF t.id # <<>> /\ t.id[1] \in recurringIds
           THEN [t EXCEPT !.recurring = TRUE,
                          !.description = NormalizeDescription(t.description)]
           ELSE t]

\* for (const t of transactions)
\*     if (t.id != null && recurringIds.has(t.id)) t.recurring = true;
\* the array holds the same objects afterwards, some with the field set.
AnnotateRecurring(transactions, recurringIds) ==
    [k \in DOMAIN transactions |->
        LET t == transactions[k]
        IN IF t.id # <<>> /\ t.id[1] \in recurringIds
           THEN [t EXCEPT !.recurring = TRUE]
           ELSE t]

\* The FullAnalyticsResult buildAnalytics returns, from the annotated array
\* and the patterns found.
FullAnalyticsResult(transactions, patterns) ==
    [summary |-> Summarize(transactions),
     monthly |-> AggregateMonthly(transactions),
     categories |-> AggregateCategories(transactions),
     recurring |-> [patterns |-> patterns, count |-> Len(patterns)]]

BuildAnalytics(transactions) ==
    LET detected == DetectRecurring(transactions)
    IN FullAnalyticsResult(AnnotateRecurring(transactions, detected.recurringIds),
                           detected.patterns)

\* Working arrays of up to MaxOccurrences records on successive days of
\* January 2025, latest first as the ledger query returns them: each is rent
\* (with an id, without one, or marked by an earlier pass) or a record of
\* another description that an earlier pass marked.  Ids follow positions.
PassLedgers ==
    LET day(d) == <<"2","0","2","5","-","0","1","-","0">> \o NatToStr(d)
        kind(n, withId, marked) ==
            [id |-> IF withId THEN <<0>> ELSE <<>>, description |-> n,
             amount |-> -5000000, type |-> "debit", category |-> Other,
             recurring |-> marked]
        kinds == { kind(Text.rent, TRUE, FALSE), kind(Text.rent, FALSE, FALSE),
                   kind(Text.rent, TRUE, TRUE), kind(Text.testItem, TRUE, TRUE) }
        placed(list) ==
            [k \in DOMAIN list |->
                [date |-> day(MaxOccurrences + 1 - k)]
                @@ (IF list[k].id = <<>> THEN list[k] ELSE [list[k] EXCEPT !.id = <<k>>])]
    IN {placed(list) : list \in SeqsUpTo(kinds, MaxOccurrences)}

NoCall == [fn |-> "none", input |-> <<>>, result |-> <<>>, repeated |-> FALSE]

\* A call fn(ledger) made during a pass: the report keeps the array as it
\* was handed over and what came back, the array is what the call left of it.
Returns(fn, result, after) ==
    /\ analyticsPc = "pass"
    /\ report' = [fn |-> fn, input |-> ledger, result |-> result,
                  repeated |-> report.fn = fn /\ report.input = ledger]
    /\ ledger' = after
    /\ UNCHANGED <<analyticsPc, thresholds, dateVars, catVars, parseVars, recordVars,
                   keyVars, dedupeVars, ingestVars>>

SummarizeCall == Returns("summarize", Summarize(ledger), ledger)

AggregateMonthlyCall == Returns("aggregateMonthly", AggregateMonthly(ledger), ledger)

AggregateCategoriesCall == Returns("aggregateCategories", AggregateCategories(ledger), ledger)

\* list.sort(...) orders each group's own array, not the one handed over
DetectRecurringCall == Returns("detectRecurring", DetectRecurring(ledger), ledger)

DetectAnomaliesCall == Returns("detectAnomalies", DetectAnomalies(ledger, 20, 30), ledger)

BuildForecastCall == Returns("buildForecast", BuildForecast(ledger, 3), ledger)

\* buildAnalytics returns its summaries and leaves the array annotated
BuildAnalyticsCall ==
    Returns("buildAnalytics", BuildAnalytics(ledger),
            AnnotateRecurring(ledger, DetectRecurring(ledger).recurringIds))

-----------------------------------------------------------------------------
(* An analysis pass: properties                                            *)

\* Arrays of the same records in the same order, up to the recurring field.
SameButRecurring(a, b) ==
    /\ Len(a) = Len(b)
    /\ \A k \in DOMAIN a : [a[k] EXCEPT !.recurring = b[k].recurring] = b[k]

C23_MarkedIffInAcceptedGroup ==
    report.fn = "buildAnalytics"
    => LET patterns == report.result.recurring.patterns
           accepted == {patterns[i].key : i \in DOMAIN patterns}
       IN \A k \in DOMAIN ledger :
             ledger[k].recurring <=> NormalizeDescription(ledger[k].description) \in accepted

-----------------------------------------------------------------------------
(* Parsed statements and the monthly rollup                                *)

\* D/M/Y with the year as its digits stand, e.g. 1/2/125.
WriteYearAsIs(seed) ==
    NatToStr(seed.d) \o <<"/">> \o NatToStr(seed.m) \o <<"/">> \o NatToStr(seed.y)

\* Date cells of a statement: days of the years 125 and 2024 in every form
\* the files use (four-digit forms pad the year, two-digit forms keep its
\* last two digits), the same with the year's digits as they stand, and a
\* Date object.
DateCells ==
    LET seeds == [y : {125, 2024}, m : {2, 12}, d : {1, 29, 31}, form : DayForms]
    IN {StrVal(WriteDate(seed)) : seed \in seeds}
       \cup {StrVal(WriteYearAsIs(seed)) : seed \in seeds}
       \cup {DateVal(2024, 2, 29)}

\* One data row under the header, dated by the cell.
DateCellSheets ==
    { <<Row.fullHeader, <<StrVal(<<"1">>), cell, StrVal(<<"A","T","M"," ","W","D","L">>),
                          StrVal(<<"5","0","0","0">>)>> >> : cell \in DateCells }

\* The string names a day of the calendar as YYYY-MM-DD.
IsIsoCalendarDay(date) ==
    /\ MatchesIsoDate(date)
    /\ LET y == ParseInt(SubSeq(date, 1, 4))
           m == ParseInt(SubSeq(date, 6, 7))
           d == ParseInt(SubSeq(date, 9, 10))
       IN m \in 1..12 /\ d \in 1..DaysInMonth(y, m)

\* C28: every transaction the parser returns has a date that matches
\* ^\d{4}-\d{2}-\d{2}$ and names a real calendar day, whatever accepted form
\* the date cell had (years of two, three or four digits), so that
\* aggregateMonthly counts it in a month.
C28_ParsedDatesAreIsoDays ==
    parsePc = "done"
    => \A k \in DOMAIN parseOutcome.transactions :
          /\ IsIsoCalendarDay(parseOutcome.transactions[k].date)
          /\ AggregateMonthly(<<parseOutcome.transactions[k]>>) # <<>>

-----------------------------------------------------------------------------
(* Specifications                                                          *)

\* The harnesses not in use stand still in these states.
Idle(active) ==
    /\ IF "date" \in active THEN TRUE
       ELSE /\ dateSeed = [y |-> 2025, m |-> 11, d |-> 8, form |-> "iso"]
            /\ dateStr = <<>>
            /\ host = [mdy |-> TRUE, lenient |-> FALSE]
            /\ parsed = NullDate
            /\ formatted = <<>>
            /\ datePc = "idle"
    /\ IF "cat" \in active THEN TRUE
       ELSE /\ categorizationMap = <<>>
            /\ description = <<>>
            /\ category = <<>>
            /\ catPc = "idle"
    /\ IF "parse" \in active THEN TRUE
       ELSE /\ aoa = <<>>
            /\ parseOutcome = Returned(<<>>)
            /\ parsePc = "idle"
    /\ IF "records" \in active THEN TRUE
       ELSE /\ ledgerRow = BlankRow
            /\ transaction = BlankTransaction
            /\ formData = BlankTransaction
            /\ editPc = "idle"
    /\ IF "keys" \in active THEN TRUE
       ELSE /\ keyInputs = <<>>
            /\ keys = <<>>
            /\ keyPc = "idle"
    /\ IF "dedupe" \in active THEN TRUE
       ELSE /\ staged = <<>>
            /\ existingKeys = {}
            /\ newOnes = <<>>
            /\ duplicateCount = 0
            /\ dedupePc = "idle"
    /\ IF "ingest" \in active THEN TRUE
       ELSE /\ transactionsTable = <<>>
            /\ analysisResult = <<>>
            /\ stagedTransactions = <<>>
            /\ inFlight = <<>>
            /\ errorMessage = <<>>
            /\ sessionPc = <<>>
            /\ ingested = <<>>
            /\ statements = <<>>
            /\ isConfirming = <<>>
            /\ isStagingModalOpen = <<>>
    /\ IF "analytics" \in active THEN TRUE
       ELSE /\ ledger = <<>>
            /\ thresholds = <<>>
            /\ report = <<>>
            /\ analyticsPc = "idle"

InitDate ==
    /\ Idle({"date"})
    /\ dateSeed \in DateSeeds
    /\ dateStr = WriteDate(dateSeed)
    /\ host \in Hosts
    /\ parsed = NullDate
    /\ formatted = <<>>
    /\ datePc = "input"

SpecDate == InitDate /\ [][ParseDateStep \/ FormatDateStep]_vars

InitCategory ==
    /\ Idle({"cat"})
    /\ categorizationMap \in Tables
    /\ description \in Narrations
    /\ category = <<>>
    /\ catPc = "input"

SpecCategory == InitCategory /\ [][GetCategoryStep]_vars

InitParser ==
    /\ Idle({"date", "cat", "parse"})
    /\ aoa \in Sheets
    /\ parseOutcome = Returned(<<>>)
    /\ parsePc = "input"
    /\ dateSeed = [y |-> 2025, m |-> 11, d |-> 8, form |-> "iso"]
    /\ dateStr = <<>>
    /\ host \in ParserHosts
    /\ parsed = NullDate
    /\ formatted = <<>>
    /\ datePc = "idle"
    /\ categorizationMap = ParserTable
    /\ description = <<>>
    /\ category = <<>>
    /\ catPc = "idle"

SpecParser == InitParser /\ [][ProcessXlsDataStep]_vars

InitNarrations ==
    /\ Idle({"date", "cat", "parse"})
    /\ aoa \in NarrationSheets
    /\ parseOutcome = Returned(<<>>)
    /\ parsePc = "input"
    /\ dateSeed = [y |-> 2025, m |-> 11, d |-> 8, form |-> "iso"]
    /\ dateStr = <<>>
    /\ host \in ParserHosts
    /\ parsed = NullDate
    /\ formatted = <<>>
    /\ datePc = "idle"
    /\ categorizationMap \in NarrationTables
    /\ description = <<>>
    /\ category = <<>>
    /\ catPc = "idle"

SpecNarrations == InitNarrations /\ [][ProcessXlsDataStep]_vars

InitDateCells ==
    /\ Idle({"date", "cat", "parse"})
    /\ aoa \in DateCellSheets
    /\ parseOutcome = Returned(<<>>)
    /\ parsePc = "input"
    /\ dateSeed = [y |-> 2025, m |-> 11, d |-> 8, form |-> "iso"]
    /\ dateStr = <<>>
    /\ host \in Hosts
    /\ parsed = NullDate
    /\ formatted = <<>>
    /\ datePc = "idle"
    /\ categorizationMap = ParserTable
    /\ description = <<>>
    /\ category = <<>>
    /\ catPc = "idle"

SpecDateCells == InitDateCells /\ [][ProcessXlsDataStep]_vars

InitRecords ==
    /\ Idle({"records"})
    /\ ledgerRow \in LedgerRows
    /\ transaction = BlankTransaction
    /\ formData = BlankTransaction
    /\ editPc = "row"

SpecRecords ==
    InitRecords /\ [][MapRowStep \/ OpenEdit \/ HandleChange \/ HandleAmountChange \/ CloseEdit]_vars

InitKeys ==
    /\ Idle({"keys"})
    /\ keyInputs \in KeyTransactions \X KeyTransactions
    /\ keys = <<>>
    /\ keyPc = "input"

SpecKeys == InitKeys /\ [][MakeTransactionKeyStep]_vars

InitDedupe ==
    /\ Idle({"dedupe"})
    /\ staged \in SeqsUpTo(StagedPool, MaxStaged)
    /\ existingKeys \in SUBSET ExistingKeyPool
    /\ newOnes = <<>>
    /\ duplicateCount = 0
    /\ dedupePc = "input"

SpecDedupe == InitDedupe /\ [][FilterDuplicateStagedStep]_vars

InitSessions(names, files) ==
    /\ statements = [s \in names |-> files]
    /\ isConfirming = [s \in names |-> FALSE]
    /\ isStagingModalOpen = [s \in names |-> FALSE]
    /\ transactionsTable = <<>>
    /\ analysisResult = [s \in names |-> AnalyzeTransactions(<<>>)]
    /\ stagedTransactions = [s \in names |-> <<>>]
    /\ inFlight = [s \in names |-> NoRequest]
    /\ errorMessage = [s \in names |-> NoMessage]
    /\ sessionPc = [s \in names |-> "ready"]
    /\ ingested = [s \in names |-> {}]

InitIngest == Idle({"ingest"}) /\ InitSessions({"a"}, Batches)

SpecIngest ==
    InitIngest
    /\ [][\/ \E s \in Sessions : HandleFileUpload(s)
          \/ \E s \in Sessions : HandleConfirmStagedTransactions(s)
          \/ \E s \in Sessions : InsertRows(s)
          \/ \E s \in Sessions : InsertFails(s)
          \/ \E s \in Sessions : Refetch(s)]_vars

\* The backend answers every insert, with success or with an error, and every
\* refetch.
SpecConfirm ==
    /\ InitIngest
    /\ [][\/ \E s \in Sessions : HandleFileUpload(s)
          \/ \E s \in Sessions : HandleConfirmStagedTransactions(s)
          \/ \E s \in Sessions : InsertRows(s)
          \/ \E s \in Sessions : InsertFails(s)
          \/ \E s \in Sessions : Refetch(s)
          \/ \E s \in Sessions : CloseStaging(s)]_vars
    /\ WF_vars(InsertRows("a") \/ InsertFails("a"))
    /\ WF_vars(Refetch("a"))

InitRace == Idle({"ingest"}) /\ InitSessions({"a", "b"}, {b \in Batches : Len(b) = 1})

InitEdit ==
    /\ Idle({"ingest", "records"})
    /\ statements = [s \in {"a"} |-> {}]
    /\ isConfirming = [s \in {"a"} |-> FALSE]
    /\ isStagingModalOpen = [s \in {"a"} |-> FALSE]
    /\ transactionsTable = EditTable
    /\ analysisResult = [s \in {"a"} |-> AnalyzeTransactions(SelectTransactions(EditTable, UserId))]
    /\ stagedTransactions = [s \in {"a"} |-> <<>>]
    /\ inFlight = [s \in {"a"} |-> NoRequest]
    /\ errorMessage = [s \in {"a"} |-> NoMessage]
    /\ sessionPc = [s \in {"a"} |-> "ready"]
    /\ ingested = [s \in {"a"} |-> {}]
    /\ ledgerRow = BlankRow
    /\ transaction = BlankTransaction
    /\ formData = BlankTransaction
    /\ editPc = "closed"

SpecEdit ==
    InitEdit
    /\ [][\/ \E s \in Sessions : HandleEditTransaction(s)
          \/ HandleChange
          \/ HandleAmountChange
          \/ CloseEdit
          \/ \E s \in Sessions : HandleConfirmEdit(s)
          \/ \E s \in Sessions : UpdateRow(s)
          \/ \E s \in Sessions : UpdateFails(s)
          \/ \E s \in Sessions : RefetchEdited(s)]_vars

SpecRace ==
    InitRace
    /\ [][\/ \E s \in Sessions : HandleFileUpload(s)
          \/ \E s \in Sessions : HandleConfirmStagedTransactions(s)
          \/ \E s \in Sessions : InsertRows(s)
          \/ \E s \in Sessions : InsertFails(s)
          \/ \E s \in Sessions : Refetch(s)
          \/ \E s \in Sessions : Reload(s)]_vars

InitAnalytics ==
    /\ Idle({"analytics"})
    /\ ledger \in AnalyticsLedgers
    /\ thresholds = <<>>
    /\ report = <<>>
    /\ analyticsPc = "input"

SpecAnalytics ==
    InitAnalytics
    /\ [][\/ AnalyzeTransactionsStep
          \/ SummarizeStep
          \/ AggregateMonthlyStep
          \/ AggregateCategoriesStep]_vars

InitRecurring ==
    /\ Idle({"analytics"})
    /\ ledger \in RecurringLedgers
    /\ thresholds = <<>>
    /\ report = <<>>
    /\ analyticsPc = "input"

SpecRecurring == InitRecurring /\ [][DetectRecurringStep]_vars

InitAnomalies ==
    /\ Idle({"analytics"})
    /\ ledger \in AnomalyLedgers
    /\ thresholds \in ThresholdChoices
    /\ report = <<>>
    /\ analyticsPc = "input"

SpecAnomalies == InitAnomalies /\ [][DetectAnomaliesStep]_vars

InitForecast ==
    /\ Idle({"analytics"})
    /\ ledger \in ForecastLedgers
    /\ thresholds = <<>>
    /\ report = <<>>
    /\ analyticsPc = "input"

SpecForecast == InitForecast /\ [][BuildForecastStep]_vars

InitPass ==
    /\ Idle({"analytics"})
    /\ ledger \in PassLedgers
    /\ thresholds = <<>>
    /\ report = NoCall
    /\ analyticsPc = "pass"

SpecPass ==
    InitPass
    /\ [][\/ SummarizeCall
          \/ AggregateMonthlyCall
          \/ AggregateCategoriesCall
          \/ DetectRecurringCall
          \/ DetectAnomaliesCall
          \/ BuildForecastCall
          \/ BuildAnalyticsCall]_vars

=============================================================================
